---- MODULE Spec2Model ----
(***************************************************************************)
(* Model of the emporium extension host: the session message loop of       *)
(* Extension::into_sipper (src/src/wasm.rs) and the Registry               *)
(* (src/src/registry.rs) that multiplexes sessions into one event stream.  *)
(***************************************************************************)
EXTENDS Integers, Sequences, FiniteSets, TLC

\* ------------------------------------------------------------------ bounds
MaxCmds == 2
MaxRegCmds == 2
MaxMsgs == 3

\* The sessions of the model: Solo is driven directly by a caller, and the
\* registry starts its sessions in this order.
Sessions == {1, 2}
Solo == 1
Ids == {"a", "b"}

None == "None"
NoCmd == [type |-> "NoCmd", tool_id |-> None, correlation_id |-> None, n |-> 0]
NoEvent == [type |-> "NoEvent", tool_id |-> None, correlation_id |-> None,
            message |-> None, n |-> 0]

VARIABLES
  guest,      \* per session: the component (wasm_bytes) the Extension was loaded from
  pc,         \* per session: position of the into_sipper future
  queue,      \* per session: commands buffered in the unbounded channel (msg_tx -> msg_rx)
  nsub,       \* per session: number of commands accepted by the channel so far
  cur,        \* per session: `cmd` bound by `while let Some(cmd)`, NoCmd outside the body
  emitted,    \* per session: sequence of events passed to output.send so far
  taken,      \* per session: number of events pulled from the sipper by its consumer
  callerTx,   \* per session: number of Sender clones held by callers
  extensions, \* Registry.extensions: id -> session whose sender is stored (0 = no entry)
  regId,      \* per session: ext_id captured by its forwarding task (None = not registered)
  merged,     \* Registry.event_tx/event_rx: the merged (id, event) stream
  mread,      \* number of merged events the consumer of Registry::events has received
  listed,     \* the Vec the last Registry::list_extensions call returned
  disk,       \* the arguments of load and what its path names in the file system
  loadRes,    \* what load returned
  arg,        \* the argument of the data function under study
  ret,        \* the values computed from arg so far, in order
  store,      \* per session: the state of the guest instance in the session's Store
  result      \* outcome of the last caller-visible operation

vars == <<guest, pc, queue, nsub, cur, emitted, taken, callerTx,
          extensions, regId, merged, mread, listed, disk, loadRes, arg, ret, store, result>>

\* ------------------------------------------------------------ data model
\* emporium_core::Command; n is the submission serial of the command within
\* its session (history information, not visible to the program).
Command(type, tool_id, correlation_id, n) ==
  [type |-> type, tool_id |-> tool_id, correlation_id |-> correlation_id, n |-> n]

\* Command::correlation_id
correlation_id(cmd) == cmd.correlation_id

\* Event::Core(Response::...) / Event::Connected; n is the serial of the
\* command whose loop iteration emitted the event (0 for start-up events).
Event(type, tool_id, cid, message, n) ==
  [type |-> type, tool_id |-> tool_id, correlation_id |-> cid,
   message |-> message, n |-> n]

\* The command shapes callers submit in this model.
CmdInputs ==
  { [type |-> "ListTools", tool_id |-> None, correlation_id |-> None],
    [type |-> "ExecuteTool", tool_id |-> "missing_tool", correlation_id |-> "c1"],
    [type |-> "GetToolDetails", tool_id |-> "t1", correlation_id |-> "c2"] }

\* Positions at which the future (and with it msg_rx, msg_tx, the store) exists.
StartPcs == {"created", "instantiated", "metadata"}
LoopPcs == {"await", "call"}
\* No load call yet.
NoDisk == [id |-> None, config |-> None, path |-> None]
NoLoad == [res |-> "none", id |-> None, config |-> None, wasm_bytes |-> None]

TaskAlive(s) == pc[s] \in StartPcs \cup LoopPcs
ReceiverAlive(s) == TaskAlive(s)

Init ==
  /\ guest = [s \in Sessions |-> None]
  /\ pc = [s \in Sessions |-> "unborn"]
  /\ queue = [s \in Sessions |-> <<>>]
  /\ nsub = [s \in Sessions |-> 0]
  /\ cur = [s \in Sessions |-> NoCmd]
  /\ emitted = [s \in Sessions |-> <<>>]
  /\ taken = [s \in Sessions |-> 0]
  /\ callerTx = [s \in Sessions |-> 0]
  /\ extensions = [i \in Ids |-> 0]
  /\ regId = [s \in Sessions |-> None]
  /\ merged = <<>>
  /\ mread = 0
  /\ listed = <<>>
  /\ disk = NoDisk
  /\ loadRes = NoLoad
  /\ arg = None
  /\ ret = <<>>
  /\ store = [s \in Sessions |-> <<>>]
  /\ result = [op |-> "none", id |-> None, res |-> None]

\* ------------------------------------------------------------- the guest
\* What a tool invocation inside the guest can come to.
ToolOutcomes == {"ok", "err"}

\* Variant of respond: the list of tools is returned without the correlation
\* id of the command.
respondListNoCid(cmd, o) ==
  CASE cmd.type = "ListTools" ->
         Event("ToolList", None, None, None, cmd.n)
    [] cmd.type = "GetToolDetails" ->
         IF o = "ok"
         THEN Event("ToolDetails", cmd.tool_id, cmd.correlation_id, None, cmd.n)
         ELSE Event("Error", None, cmd.correlation_id, "Tool not found", cmd.n)
    [] cmd.type = "ExecuteTool" ->
         IF o = "ok"
         THEN Event("ToolResult", cmd.tool_id, cmd.correlation_id, None, cmd.n)
         ELSE Event("Error", None, cmd.correlation_id, "Tool execution failed", cmd.n)
    [] OTHER ->
         IF o = "ok"
         THEN Event("ToolResult", "custom", cmd.correlation_id, None, cmd.n)
         ELSE Event("Error", None, cmd.correlation_id, "Invalid custom command format", cmd.n)

\* Variant of respond: the result of a tool call is labelled "custom" whatever
\* command asked for it.
respondCustomLabel(cmd, o) ==
  CASE cmd.type = "ListTools" ->
         Event("ToolList", None, cmd.correlation_id, None, cmd.n)
    [] cmd.type = "GetToolDetails" ->
         IF o = "ok"
         THEN Event("ToolDetails", cmd.tool_id, cmd.correlation_id, None, cmd.n)
         ELSE Event("Error", None, cmd.correlation_id, "Tool not found", cmd.n)
    [] OTHER ->
         IF o = "ok"
         THEN Event("ToolResult", "custom", cmd.correlation_id, None, cmd.n)
         ELSE Event("Error", None, cmd.correlation_id, "Tool execution failed", cmd.n)

\* respond (provider guest): the Response built for a command.
respond(cmd, o) ==
  CASE cmd.type = "ListTools" ->
         Event("ToolList", None, cmd.correlation_id, None, cmd.n)
    [] cmd.type = "GetToolDetails" ->
         IF o = "ok"
         THEN Event("ToolDetails", cmd.tool_id, cmd.correlation_id, None, cmd.n)
         ELSE Event("Error", None, cmd.correlation_id, "Tool not found", cmd.n)
    [] cmd.type = "ExecuteTool" ->
         IF o = "ok"
         THEN Event("ToolResult", cmd.tool_id, cmd.correlation_id, None, cmd.n)
         ELSE Event("Error", None, cmd.correlation_id, "Tool execution failed", cmd.n)
    [] OTHER ->
         IF o = "ok"
         THEN Event("ToolResult", "custom", cmd.correlation_id, None, cmd.n)
         ELSE Event("Error", None, cmd.correlation_id, "Invalid custom command format", cmd.n)

\* The four arms of `match instance.call_update(..).await` and of the nested
\* `match serde_json::from_str::<Response>(..)`.
UpdateOutcomes == {"reply", "garbage", "fail", "trap"}

\* The components sessions are started from.  The provider guest answers with
\* the Response `respond` builds.  The key-value guest parses the command text
\* as its own Message (tagged by "method"), which the text of a Command
\* (tagged by "type") never is, so its update returns Err("Invalid message").
\* An opaque guest may do anything the interface allows that returns; the
\* update of a spinning guest ("spin", used where a claim is about a call
\* that never returns) has no outcome at all.
Guests == {"provider", "kv", "opaque"}

GuestOutcomes(g) ==
  CASE g = "provider" -> {"reply"}
    [] g = "kv" -> {"fail"}
    [] g = "spin" -> {}
    [] OTHER -> UpdateOutcomes

\* The state of a guest instance after its update was called with cmd in
\* state st: the two guests of the repository keep theirs (kv rejects every
\* Command text, the provider holds only the client built from its
\* configuration); any other guest is free to keep what it was told.
GuestState(g, st, cmd) ==
  IF g \in {"provider", "kv", "spin"} THEN st ELSE Append(st, cmd)

\* Variant of HostError: the correlation id of the command is forgotten.
HostErrorNoCid(message, cmd) ==
  Event("Error", None, None, message, cmd.n)

\* Response::Error built by the host for the command being processed.
HostError(message, cmd) ==
  Event("Error", None, correlation_id(cmd), message, cmd.n)

\* The event the loop emits for an outcome of call_update.
UpdateEvent(cmd, outcome, o) ==
  CASE outcome = "reply" -> respond(cmd, o)
    [] outcome = "garbage" -> HostError("Failed to deserialize response", cmd)
    [] outcome = "fail" -> HostError("guest error", cmd)
    [] OTHER -> HostError("Runtime error", cmd)

\* ------------------------------------------------------ the session future
\* The future is a cooperative task: it is modelled one action per stretch of
\* code that ends in a guest call (an .await on the virtual machine) or in the
\* wait for the next command; an event counts as emitted when it is passed to
\* output.send.

\* Number of events in the sipper's output that carry a Sender and have not
\* been pulled yet.
SendersInFlight(s) ==
  Cardinality({i \in (taken[s] + 1)..Len(emitted[s]) : emitted[s][i].type = "Connected"})

\* Number of Connected events of s that wait in the merged channel, each
\* holding a Sender until the consumer receives and drops it.
MergedSenders(s) ==
  Cardinality({i \in (mread + 1)..Len(merged) :
                 merged[i].src = s /\ merged[i].event.type = "Connected"})

\* Senders of the session's command channel that exist: the future's own
\* msg_tx (it only ever hands out clones), the clones travelling in Connected
\* events (in the sipper's output or in the merged channel), the clones
\* callers hold and the one the registry stores.
SendersAlive(s) ==
  (IF TaskAlive(s) THEN 1 ELSE 0) + SendersInFlight(s) + callerTx[s]
    + Cardinality({i \in Ids : extensions[i] = s}) + MergedSenders(s)

\* Engine::new, Component::from_binary, the three add_to_linker calls,
\* Store::new and instantiate_async(..).await, each followed by .unwrap():
\* any failure panics, which unwinds the future and drops all it owns.
Instantiate(s) ==
  /\ pc[s] = "created"
  /\ \E ok \in BOOLEAN : pc' = [pc EXCEPT ![s] = IF ok THEN "instantiated" ELSE "panicked"]
  /\ UNCHANGED <<guest, queue, nsub, cur, emitted, taken, callerTx,
                 extensions, regId, merged, mread, listed, disk, loadRes, arg, ret, store, result>>

\* Variant of GetMetadata: the Metadata response is not sent.
GetMetadataSilent(s) ==
  /\ pc[s] = "instantiated"
  /\ \E ok \in BOOLEAN : pc' = [pc EXCEPT ![s] = IF ok THEN "metadata" ELSE "panicked"]
  /\ UNCHANGED <<guest, queue, nsub, cur, emitted, taken, callerTx,
                 extensions, regId, merged, mread, listed, disk, loadRes, arg, ret, store, result>>

\* call_get_metadata(&mut store).await.unwrap(), then
\* output.send(Event::Core(Response::Metadata {..})).await
GetMetadata(s) ==
  /\ pc[s] = "instantiated"
  /\ \E ok \in BOOLEAN :
       IF ok
       THEN /\ pc' = [pc EXCEPT ![s] = "metadata"]
            /\ emitted' = [emitted EXCEPT ![s] = Append(@, Event("Metadata", None, None, None, 0))]
       ELSE /\ pc' = [pc EXCEPT ![s] = "panicked"]
            /\ UNCHANGED emitted
  /\ UNCHANGED <<guest, queue, nsub, cur, taken, callerTx,
                 extensions, regId, merged, mread, listed, disk, loadRes, arg, ret, store, result>>

\* instance.call_new(&mut store, &self.config).await.unwrap(), then
\* output.send(Event::Connected(msg_tx.clone())).await
CallNew(s) ==
  /\ pc[s] = "metadata"
  /\ \E ok \in BOOLEAN :
       IF ok
       THEN /\ pc' = [pc EXCEPT ![s] = "await"]
            /\ emitted' = [emitted EXCEPT ![s] = Append(@, Event("Connected", None, None, None, 0))]
       ELSE /\ pc' = [pc EXCEPT ![s] = "panicked"]
            /\ UNCHANGED emitted
  /\ UNCHANGED <<guest, queue, nsub, cur, taken, callerTx,
                 extensions, regId, merged, mread, listed, disk, loadRes, arg, ret, store, result>>

\* Variant of RecvNext: the newest command is taken instead of the oldest.
RecvNextLifo(s) ==
  /\ pc[s] = "await"
  /\ queue[s] # <<>>
  /\ queue' = [queue EXCEPT ![s] = SubSeq(@, 1, Len(@) - 1)]
  /\ pc' = [pc EXCEPT ![s] = "call"]
  /\ cur' = [cur EXCEPT ![s] = queue[s][Len(queue[s])]]
  /\ UNCHANGED <<guest, nsub, emitted, taken, callerTx, extensions, regId, merged, mread, listed, disk, loadRes, arg, ret, store, result>>

\* Variant of RecvNext: the next command is taken without waiting for the
\* guest call in flight.
RecvNextEager(s) ==
  /\ pc[s] \in {"await", "call"}
  /\ queue[s] # <<>>
  /\ queue' = [queue EXCEPT ![s] = Tail(@)]
  /\ pc' = [pc EXCEPT ![s] = "call"]
  /\ cur' = [cur EXCEPT ![s] = Head(queue[s])]
  /\ UNCHANGED <<guest, nsub, emitted, taken, callerTx, extensions, regId, merged, mread, listed, disk, loadRes, arg, ret, store, result>>

\* Variant of RecvNext: the loop ends as soon as the callers hold no Sender,
\* leaving buffered commands behind.
RecvNextAbort(s) ==
  /\ pc[s] = "await"
  /\ IF SendersAlive(s) = 1
     THEN /\ pc' = [pc EXCEPT ![s] = "done"]
          /\ UNCHANGED <<cur, queue>>
     ELSE /\ queue[s] # <<>>
          /\ queue' = [queue EXCEPT ![s] = Tail(@)]
          /\ pc' = [pc EXCEPT ![s] = "call"]
          /\ cur' = [cur EXCEPT ![s] = Head(queue[s])]
  /\ UNCHANGED <<guest, nsub, emitted, taken, callerTx, extensions, regId, merged, mread, listed, disk, loadRes, arg, ret, store, result>>

\* Variant of RecvNext: the sessions share one virtual machine, a command is
\* taken only while no other session is inside a guest call.
RecvNextExclusive(s) ==
  /\ pc[s] = "await"
  /\ \A t \in Sessions \ {s} : pc[t] # "call"
  /\ IF queue[s] # <<>>
     THEN /\ queue' = [queue EXCEPT ![s] = Tail(@)]
          /\ \E ok \in BOOLEAN :
               IF ok
               THEN /\ pc' = [pc EXCEPT ![s] = "call"]
                    /\ cur' = [cur EXCEPT ![s] = Head(queue[s])]
                    /\ UNCHANGED emitted
               ELSE /\ emitted' = [emitted EXCEPT ![s] =
                          Append(@, HostError("Failed to serialize command", Head(queue[s])))]
                    /\ UNCHANGED <<pc, cur>>
     ELSE /\ SendersAlive(s) = 0
          /\ pc' = [pc EXCEPT ![s] = "done"]
          /\ UNCHANGED <<cur, queue, emitted>>
  /\ UNCHANGED <<guest, nsub, taken, callerTx, extensions, regId, merged, mread, listed, disk, loadRes, arg, ret, store, result>>

\* `while let Some(cmd) = msg_rx.next().await`: a buffered command is taken
\* from the head; with an empty buffer the receiver yields None only when no
\* sender is left, and stays pending otherwise.  The body then runs up to the
\* guest call: `match serde_json::to_string(&cmd)` either starts call_update
\* or sends the Error response and continues with the next iteration.
RecvNext(s) ==
  /\ pc[s] = "await"
  /\ IF queue[s] # <<>>
     THEN /\ queue' = [queue EXCEPT ![s] = Tail(@)]
          /\ \E ok \in BOOLEAN :
               IF ok
               THEN /\ pc' = [pc EXCEPT ![s] = "call"]
                    /\ cur' = [cur EXCEPT ![s] = Head(queue[s])]
                    /\ UNCHANGED emitted
               ELSE /\ emitted' = [emitted EXCEPT ![s] =
                          Append(@, HostError("Failed to serialize command", Head(queue[s])))]
                    /\ UNCHANGED <<pc, cur>>
     ELSE /\ SendersAlive(s) = 0
          /\ pc' = [pc EXCEPT ![s] = "done"]
          /\ UNCHANGED <<cur, queue, emitted>>
  /\ UNCHANGED <<guest, nsub, taken, callerTx, extensions, regId, merged, mread, listed, disk, loadRes, arg, ret, store, result>>

\* Variant of UpdateReturn: a runtime fault is swallowed without a response.
UpdateReturnDrop(s) ==
  /\ pc[s] = "call"
  /\ \E outcome \in GuestOutcomes(guest[s]), o \in ToolOutcomes :
       emitted' = [emitted EXCEPT ![s] =
                     IF outcome = "trap" THEN @ ELSE Append(@, UpdateEvent(cur[s], outcome, o))]
  /\ pc' = [pc EXCEPT ![s] = "await"]
  /\ cur' = [cur EXCEPT ![s] = NoCmd]
  /\ store' = [store EXCEPT ![s] = GuestState(guest[s], @, cur[s])]
  /\ UNCHANGED <<guest, queue, nsub, taken, callerTx, extensions, regId, merged, mread, listed, disk, loadRes, arg, ret, result>>

\* Variant of UpdateReturn: a runtime fault is propagated and ends the session.
UpdateReturnFatal(s) ==
  /\ pc[s] = "call"
  /\ \E outcome \in GuestOutcomes(guest[s]), o \in ToolOutcomes :
       IF outcome = "trap"
       THEN /\ pc' = [pc EXCEPT ![s] = "panicked"]
            /\ UNCHANGED emitted
       ELSE /\ pc' = [pc EXCEPT ![s] = "await"]
            /\ emitted' = [emitted EXCEPT ![s] = Append(@, UpdateEvent(cur[s], outcome, o))]
  /\ cur' = [cur EXCEPT ![s] = NoCmd]
  /\ store' = [store EXCEPT ![s] = GuestState(guest[s], @, cur[s])]
  /\ UNCHANGED <<guest, queue, nsub, taken, callerTx, extensions, regId, merged, mread, listed, disk, loadRes, arg, ret, result>>

\* instance.call_update(&mut store, instance_resource, &cmd_json).await
\* returns; the arm taken sends its response and the loop iterates.
UpdateReturn(s) ==
  /\ pc[s] = "call"
  /\ \E outcome \in GuestOutcomes(guest[s]), o \in ToolOutcomes :
       emitted' = [emitted EXCEPT ![s] = Append(@, UpdateEvent(cur[s], outcome, o))]
  /\ pc' = [pc EXCEPT ![s] = "await"]
  /\ cur' = [cur EXCEPT ![s] = NoCmd]
  /\ store' = [store EXCEPT ![s] = GuestState(guest[s], @, cur[s])]
  /\ UNCHANGED <<guest, queue, nsub, taken, callerTx, extensions, regId, merged, mread, listed, disk, loadRes, arg, ret, result>>

SessionStep(s) ==
  \/ Instantiate(s)
  \/ GetMetadata(s)
  \/ CallNew(s)
  \/ RecvNext(s)
  \/ UpdateReturn(s)

\* ------------------------------------------------------------ the channel
\* Variant of unbounded_send: the sessions made from one component share one
\* channel, a command reaches every session.
unbounded_sendShared(s, c) ==
  IF ReceiverAlive(s)
  THEN /\ queue' = [t \in Sessions |->
                     IF ReceiverAlive(t)
                     THEN Append(queue[t], Command(c.type, c.tool_id, c.correlation_id, nsub[s] + 1))
                     ELSE queue[t]]
       /\ nsub' = [nsub EXCEPT ![s] = @ + 1]
  ELSE UNCHANGED <<queue, nsub>>

\* UnboundedSender::unbounded_send: appends at the tail whatever the length;
\* fails only when the receiver has been dropped.
unbounded_send(s, c) ==
  IF ReceiverAlive(s)
  THEN /\ queue' = [queue EXCEPT ![s] = Append(@, Command(c.type, c.tool_id, c.correlation_id, nsub[s] + 1))]
       /\ nsub' = [nsub EXCEPT ![s] = @ + 1]
  ELSE UNCHANGED <<queue, nsub>>

SendResult(s) == IF ReceiverAlive(s) THEN "Ok" ELSE "SendError"

\* ------------------------------------------- a caller driving one session
\* extension.into_sipper(): the channel is created, the future is not run yet
IntoSipper(s, g) ==
  /\ pc[s] = "unborn"
  /\ pc' = [pc EXCEPT ![s] = "created"]
  /\ guest' = [guest EXCEPT ![s] = g]
  /\ UNCHANGED <<queue, nsub, cur, emitted, taken, callerTx,
                 extensions, regId, merged, mread, listed, disk, loadRes, arg, ret, store, result>>

\* sipper.next().await by the caller; a Connected event hands over its Sender
PullEvent(s) ==
  /\ regId[s] = None
  /\ taken[s] < Len(emitted[s])
  /\ taken' = [taken EXCEPT ![s] = @ + 1]
  /\ callerTx' = [callerTx EXCEPT ![s] =
                    IF emitted[s][taken[s] + 1].type = "Connected" THEN @ + 1 ELSE @]
  /\ UNCHANGED <<guest, pc, queue, nsub, cur, emitted, extensions, regId, merged, mread, listed, disk, loadRes, arg, ret, store, result>>

\* tx.unbounded_send(command) on a Sender the caller holds
CallerSend(s, c) ==
  /\ callerTx[s] > 0
  /\ nsub[s] < MaxCmds
  /\ unbounded_send(s, c)
  /\ result' = [op |-> "tx_send", id |-> None, res |-> SendResult(s)]
  /\ UNCHANGED <<guest, pc, cur, emitted, taken, callerTx, extensions, regId, merged, mread, listed, disk, loadRes, arg, ret, store>>

\* drop(tx)
DropTx(s) ==
  /\ callerTx[s] > 0
  /\ callerTx' = [callerTx EXCEPT ![s] = @ - 1]
  /\ UNCHANGED <<guest, pc, queue, nsub, cur, emitted, taken,
                 extensions, regId, merged, mread, listed, disk, loadRes, arg, ret, store, result>>

Next ==
  \/ \E g \in Guests : IntoSipper(Solo, g)
  \/ SessionStep(Solo)
  \/ PullEvent(Solo)
  \/ \E c \in CmdInputs : CallerSend(Solo, c)
  \/ DropTx(Solo)

Spec == Init /\ [][Next]_vars

\* The command shapes sent through the registry in this model.
RegCmdInputs ==
  { [type |-> "ExecuteTool", tool_id |-> "missing_tool", correlation_id |-> "c1"] }

\* --------------------------------------------- two sessions of one component
\* The command a caller sends to session s: each session is sent commands
\* with a correlation id of its own.
CloneCmd(s) ==
  [type |-> "ExecuteTool", tool_id |-> "t1",
   correlation_id |-> IF s = Solo THEN "c1" ELSE "c2"]

\* The state after `let a = extension.clone().into_sipper()` and
\* `let b = extension.into_sipper()`: two futures of the same component,
\* neither polled yet.
CloneInit ==
  /\ guest = [s \in Sessions |-> "opaque"]
  /\ pc = [s \in Sessions |-> "created"]
  /\ queue = [s \in Sessions |-> <<>>]
  /\ nsub = [s \in Sessions |-> 0]
  /\ cur = [s \in Sessions |-> NoCmd]
  /\ emitted = [s \in Sessions |-> <<>>]
  /\ taken = [s \in Sessions |-> 0]
  /\ callerTx = [s \in Sessions |-> 0]
  /\ extensions = [i \in Ids |-> 0]
  /\ regId = [s \in Sessions |-> None]
  /\ merged = <<>>
  /\ mread = 0
  /\ listed = <<>>
  /\ disk = NoDisk
  /\ loadRes = NoLoad
  /\ arg = None
  /\ ret = <<>>
  /\ store = [s \in Sessions |-> <<>>]
  /\ result = [op |-> "none", id |-> None, res |-> None]

CloneNext ==
  \/ \E s \in Sessions : SessionStep(s)
  \/ \E s \in Sessions : PullEvent(s)
  \/ \E s \in Sessions : CallerSend(s, CloneCmd(s))

CloneSpec == CloneInit /\ [][CloneNext]_vars

\* ------------------------------------------ a caller of the provider guest
\* The command shapes submitted to the provider guest; a Custom command has
\* no tool_id, the tool it asks for is named inside its command text.
ToolCmdInputs ==
  { [type |-> "ExecuteTool", tool_id |-> "t1", correlation_id |-> "c1"],
    [type |-> "ExecuteTool", tool_id |-> "t2", correlation_id |-> None],
    [type |-> "Custom", tool_id |-> None, correlation_id |-> "c3"] }

ToolNext ==
  \/ IntoSipper(Solo, "provider")
  \/ SessionStep(Solo)
  \/ PullEvent(Solo)
  \/ \E c \in ToolCmdInputs : CallerSend(Solo, c)
  \/ DropTx(Solo)

ToolSpec == Init /\ [][ToolNext]_vars

\* Every command variant, with a correlation id and without one.
EchoCmdInputs ==
  { [type |-> t, tool_id |-> IF t \in {"GetToolDetails", "ExecuteTool"} THEN "t1" ELSE None,
     correlation_id |-> c] :
      t \in {"ListTools", "GetToolDetails", "ExecuteTool", "Custom"}, c \in {None, "c1"} }

EchoNext ==
  \/ IntoSipper(Solo, "provider")
  \/ SessionStep(Solo)
  \/ PullEvent(Solo)
  \/ \E c \in EchoCmdInputs : CallerSend(Solo, c)
  \/ DropTx(Solo)

EchoSpec == Init /\ [][EchoNext]_vars

\* ------------------------------------------------------- the command text
\* The variables of the sessions, the registry and the loader in the state
\* before any of them is used.
Idle ==
  /\ guest = [s \in Sessions |-> None]
  /\ pc = [s \in Sessions |-> "unborn"]
  /\ queue = [s \in Sessions |-> <<>>]
  /\ nsub = [s \in Sessions |-> 0]
  /\ cur = [s \in Sessions |-> NoCmd]
  /\ emitted = [s \in Sessions |-> <<>>]
  /\ taken = [s \in Sessions |-> 0]
  /\ callerTx = [s \in Sessions |-> 0]
  /\ extensions = [i \in Ids |-> 0]
  /\ regId = [s \in Sessions |-> None]
  /\ merged = <<>>
  /\ mread = 0
  /\ listed = <<>>
  /\ disk = NoDisk
  /\ loadRes = NoLoad
  /\ store = [s \in Sessions |-> <<>>]
  /\ result = [op |-> "none", id |-> None, res |-> None]

\* A step of a data function: only arg and ret are involved.
Pure ==
  UNCHANGED <<guest, pc, queue, nsub, cur, emitted, taken, callerTx,
              extensions, regId, merged, mread, listed, disk, loadRes, arg, store, result>>

\* The values of emporium_core::Command: each variant with its own fields;
\* params and command are JSON and text given by their text.
CommandValues ==
  LET cids == {None, "c1", ""}
      tools == {"t1", "t2", ""}
  IN {[type |-> "ListTools", correlation_id |-> c] : c \in cids}
     \cup {[type |-> "GetToolDetails", tool_id |-> t, correlation_id |-> c] :
              t \in tools, c \in cids}
     \cup {[type |-> "ExecuteTool", tool_id |-> t, params |-> q, correlation_id |-> c] :
              t \in tools, q \in {"null", "{\"a\":1}"}, c \in cids}
     \cup {[type |-> "Custom", command |-> k, correlation_id |-> c] :
              k \in {"", "{\"tool\":\"t1\"}", "not json"}, c \in cids}

\* The fields of a variant in declaration order, correlation_id last.
Fields(type) ==
  CASE type = "ListTools" -> <<>>
    [] type = "GetToolDetails" -> <<"tool_id">>
    [] type = "ExecuteTool" -> <<"tool_id", "params">>
    [] type = "Custom" -> <<"command">>
    [] OTHER -> <<>>

Variants == {"ListTools", "GetToolDetails", "ExecuteTool", "Custom"}

\* serde_json::to_string(&cmd) under #[serde(tag = "type", content =
\* "payload")]: the text is the object {"type": variant, "payload": {..}},
\* here the variant name and the key/value pairs of the payload in order;
\* #[serde(skip_serializing_if = "Option::is_none")] leaves correlation_id
\* out when it is None.
to_string(cmd) ==
  LET named == [i \in 1..Len(Fields(cmd.type)) |->
                  <<Fields(cmd.type)[i], cmd[Fields(cmd.type)[i]]>>]
  IN [type |-> cmd.type,
      payload |-> IF cmd.correlation_id = None
                  THEN named
                  ELSE Append(named, <<"correlation_id", cmd.correlation_id>>)]

\* Whether the payload has the key, and the value under it.
Has(payload, key) == \E i \in DOMAIN payload : payload[i][1] = key
Lookup(payload, key) == payload[CHOOSE i \in DOMAIN payload : payload[i][1] = key][2]

\* Variant of from_str: correlation_id is a required key.
from_strStrict(text) ==
  IF \/ text.type \notin Variants
     \/ \E i \in DOMAIN Fields(text.type) : ~Has(text.payload, Fields(text.type)[i])
     \/ ~Has(text.payload, "correlation_id")
  THEN [ok |-> FALSE]
  ELSE [ok |-> TRUE,
        cmd |-> [k \in {"type", "correlation_id"} \cup {Fields(text.type)[i] : i \in DOMAIN Fields(text.type)} |->
                   IF k = "type" THEN text.type ELSE Lookup(text.payload, k)]]

\* serde_json::from_str::<Command>(text): an unknown variant or a missing
\* required field is an error; an Option field that is missing is None.
from_str(text) ==
  IF \/ text.type \notin Variants
     \/ \E i \in DOMAIN Fields(text.type) : ~Has(text.payload, Fields(text.type)[i])
  THEN [ok |-> FALSE]
  ELSE [ok |-> TRUE,
        cmd |-> [k \in {"type", "correlation_id"} \cup {Fields(text.type)[i] : i \in DOMAIN Fields(text.type)} |->
                   CASE k = "type" -> text.type
                     [] k = "correlation_id" ->
                          IF Has(text.payload, k) THEN Lookup(text.payload, k) ELSE None
                     [] OTHER -> Lookup(text.payload, k)]]

CmdTextInit == Idle /\ arg \in CommandValues /\ ret = <<>>

\* let cmd_json = serde_json::to_string(&cmd) on the host
Serialize ==
  /\ ret = <<>>
  /\ ret' = <<to_string(arg)>>
  /\ Pure

\* serde_json::from_str(&cmd_json) in the guest
Deserialize ==
  /\ Len(ret) = 1
  /\ ret' = Append(ret, from_str(ret[1]))
  /\ Pure

CmdTextNext ==
  \/ Serialize
  \/ Deserialize

CmdTextSpec == CmdTextInit /\ [][CmdTextNext]_vars

\* ------------------------------------------------------ the key-value guest
\* Message::{Get, Set, Delete} over the keys and values of this model.
Messages ==
  LET keys == {"k1", "k2"}
  IN {[method |-> "get", key |-> k] : k \in keys}
     \cup {[method |-> "set", key |-> k, value |-> v] : k \in keys, v \in {"v1", "v2"}}
     \cup {[method |-> "delete", key |-> k] : k \in keys}

\* Variant of update: delete reports the key and leaves it in the map.
updateDeleteKeeps(map, msg) ==
  CASE msg.method = "get" ->
         [map |-> map,
          response |-> [t |-> "Value", v |-> IF msg.key \in DOMAIN map THEN map[msg.key] ELSE None]]
    [] msg.method = "set" ->
         [map |-> [k \in DOMAIN map \cup {msg.key} |-> IF k = msg.key THEN msg.value ELSE map[k]],
          response |-> [t |-> "Ok"]]
    [] OTHER ->
         [map |-> map,
          response |-> [t |-> "Deleted", v |-> IF msg.key \in DOMAIN map THEN 1 ELSE 0]]

\* Internal::update on the HashMap, a function from the keys present to their
\* values: the map afterwards and the Response returned.
update(map, msg) ==
  CASE msg.method = "get" ->
         [map |-> map,
          response |-> [t |-> "Value", v |-> IF msg.key \in DOMAIN map THEN map[msg.key] ELSE None]]
    [] msg.method = "set" ->
         [map |-> [k \in DOMAIN map \cup {msg.key} |-> IF k = msg.key THEN msg.value ELSE map[k]],
          response |-> [t |-> "Ok"]]
    [] OTHER ->
         [map |-> [k \in DOMAIN map \ {msg.key} |-> map[k]],
          response |-> [t |-> "Deleted", v |-> IF msg.key \in DOMAIN map THEN 1 ELSE 0]]

\* A new instance: KvStore::default(), the empty map.
KvInit ==
  /\ Idle
  /\ arg = None
  /\ ret = <<>>

\* self.0.borrow_mut().update(msg) on the instance; ret records the messages
\* and their responses.
KvUpdate ==
  /\ Len(ret) < MaxMsgs
  /\ \E msg \in Messages :
       /\ store' = [store EXCEPT ![Solo] = update(@, msg).map]
       /\ ret' = Append(ret, [msg |-> msg, response |-> update(store[Solo], msg).response])
  /\ UNCHANGED <<guest, pc, queue, nsub, cur, emitted, taken, callerTx,
                 extensions, regId, merged, mread, listed, disk, loadRes, arg, result>>

KvSpec == KvInit /\ [][KvUpdate]_vars

\* ------------------------------------------------------------- JSON values
\* A string is the sequence of its characters.  A serde_json::Value is Null,
\* Bool, Number, String, Array or Object; a Number is stored as PosInt(u64),
\* NegInt(i64) or Float(f64) and is given here by its decimal digits: the
\* magnitude without leading zeros and, for a Float, the digits after the
\* point.
Digits == <<"0", "1", "2", "3", "4", "5", "6", "7", "8", "9">>
IsDigit(c) == \E i \in DOMAIN Digits : Digits[i] = c
DigitVal(c) == (CHOOSE i \in DOMAIN Digits : Digits[i] = c) - 1

JNull == [k |-> "null"]
JBool(b) == [k |-> "bool", b |-> b]
JPos(digits) == [k |-> "number", n |-> "PosInt", digits |-> digits, frac |-> <<>>]
JNeg(digits) == [k |-> "number", n |-> "NegInt", digits |-> digits, frac |-> <<>>]
JFloat(neg, digits, frac) ==
  [k |-> "number", n |-> "Float", neg |-> neg, digits |-> digits, frac |-> frac]
JStr(chars) == [k |-> "string", s |-> chars]
JArr(elems) == [k |-> "array", elems |-> elems]
JObj(pairs) == [k |-> "object", pairs |-> pairs]

\* i64::MAX = 9223372036854775807 and the magnitude of i64::MIN
I64MaxDigits ==
  <<"9", "2", "2", "3", "3", "7", "2", "0", "3", "6", "8", "5", "4", "7", "7", "5", "8", "0", "7">>
I64MinDigits ==
  <<"9", "2", "2", "3", "3", "7", "2", "0", "3", "6", "8", "5", "4", "7", "7", "5", "8", "0", "8">>

\* a <= b for magnitudes written without leading zeros
LeqDigits(a, b) ==
  \/ Len(a) < Len(b)
  \/ /\ Len(a) = Len(b)
     /\ \/ a = b
        \/ \E i \in DOMAIN a :
             /\ \A j \in 1..(i - 1) : a[j] = b[j]
             /\ DigitVal(a[i]) < DigitVal(b[i])

\* The cells of a column: Option<i64>, Option<f64>, Option<bool>,
\* Option<String>; None is the null cell.
NullCell == [t |-> "null"]
I64(neg, digits) == [t |-> "i64", neg |-> neg, digits |-> digits]
F64(neg, digits, frac) == [t |-> "f64", neg |-> neg, digits |-> digits, frac |-> frac]
\* An integer of more than 15 digits need not be a double: the cell is the
\* double nearest to it.
F64Nearest(neg, digits) == [t |-> "f64", neg |-> neg, nearest |-> digits]
BoolCell(b) == [t |-> "bool", b |-> b]
StrCell(chars) == [t |-> "str", s |-> chars]

\* Number::as_i64: PosInt(n) if n <= i64::MAX, NegInt(n) always, Float never
as_i64(v) ==
  CASE v.n = "PosInt" -> IF LeqDigits(v.digits, I64MaxDigits) THEN I64(FALSE, v.digits) ELSE NullCell
    [] v.n = "NegInt" -> I64(TRUE, v.digits)
    [] OTHER -> NullCell

\* Number::as_f64: the integer converted to a double, or the Float itself
as_f64(v) ==
  CASE v.n = "Float" -> F64(v.neg, v.digits, v.frac)
    [] Len(v.digits) <= 15 -> F64(v.n = "NegInt", v.digits, <<"0">>)
    [] OTHER -> F64Nearest(v.n = "NegInt", v.digits)

\* A digit string without its leading zeros ("0" for zero).
RECURSIVE StripZeros(_)
StripZeros(d) ==
  IF Len(d) > 1 /\ d[1] = "0" THEN StripZeros(Tail(d)) ELSE d

\* A digit string without its trailing zeros ("0" for none left).
RECURSIVE StripTrailing(_)
StripTrailing(d) ==
  IF d = <<>> THEN <<"0">>
  ELSE IF Len(d) > 1 /\ d[Len(d)] = "0" THEN StripTrailing(SubSeq(d, 1, Len(d) - 1)) ELSE d

HasSign(s) == s # <<>> /\ s[1] \in {"+", "-"}
Unsigned(s) == IF HasSign(s) THEN Tail(s) ELSE s
AllDigits(s) == \A i \in DOMAIN s : IsDigit(s[i])

\* str::parse::<i64>: an optional sign and one or more digits, in range
parse_i64(s) ==
  LET body == Unsigned(s)
      neg == HasSign(s) /\ s[1] = "-"
      mag == StripZeros(body)
  IN IF body # <<>> /\ AllDigits(body)
          /\ LeqDigits(mag, IF neg THEN I64MinDigits ELSE I64MaxDigits)
     THEN I64(neg /\ mag # <<"0">>, mag)
     ELSE NullCell

\* str::parse::<f64> for texts without exponent, "inf" and "nan": an optional
\* sign, digits, and optionally a point and digits, one digit at least.
parse_f64(s) ==
  LET body == Unsigned(s)
      neg == HasSign(s) /\ s[1] = "-"
      dots == {i \in DOMAIN body : body[i] = "."}
      dot == IF dots = {} THEN Len(body) + 1 ELSE CHOOSE i \in dots : TRUE
      int == SubSeq(body, 1, dot - 1)
      frac == SubSeq(body, dot + 1, Len(body))
  IN IF Cardinality(dots) <= 1 /\ AllDigits(int) /\ AllDigits(frac) /\ Len(int) + Len(frac) > 0
     THEN IF frac = <<>> /\ Len(StripZeros(int)) > 15
          THEN F64Nearest(neg, StripZeros(int))
          ELSE F64(neg, IF int = <<>> THEN <<"0">> ELSE StripZeros(int), StripTrailing(frac))
     ELSE NullCell

\* char::to_lowercase on the letters of the Latin alphabet
UpperLetters ==
  <<"A", "B", "C", "D", "E", "F", "G", "H", "I", "J", "K", "L", "M",
    "N", "O", "P", "Q", "R", "S", "T", "U", "V", "W", "X", "Y", "Z">>
LowerLetters ==
  <<"a", "b", "c", "d", "e", "f", "g", "h", "i", "j", "k", "l", "m",
    "n", "o", "p", "q", "r", "s", "t", "u", "v", "w", "x", "y", "z">>
to_lowercase(s) ==
  [i \in DOMAIN s |->
     IF \E j \in DOMAIN UpperLetters : UpperLetters[j] = s[i]
     THEN LowerLetters[CHOOSE j \in DOMAIN UpperLetters : UpperLetters[j] = s[i]]
     ELSE s[i]]

\* Value::to_string: the compact JSON text of a value
RECURSIVE Text(_)
RECURSIVE TextList(_)
RECURSIVE TextPairs(_)
Quoted(chars) == <<"\"">> \o chars \o <<"\"">>
Text(v) ==
  CASE v.k = "null" -> <<"n", "u", "l", "l">>
    [] v.k = "bool" -> IF v.b THEN <<"t", "r", "u", "e">> ELSE <<"f", "a", "l", "s", "e">>
    [] v.k = "number" ->
         CASE v.n = "PosInt" -> v.digits
           [] v.n = "NegInt" -> <<"-">> \o v.digits
           [] OTHER -> (IF v.neg THEN <<"-">> ELSE <<>>) \o v.digits \o <<".">> \o v.frac
    [] v.k = "string" -> Quoted(v.s)
    [] v.k = "array" -> <<"[">> \o TextList(v.elems) \o <<"]">>
    [] OTHER -> <<"{">> \o TextPairs(v.pairs) \o <<"}">>
TextList(elems) ==
  IF elems = <<>> THEN <<>>
  ELSE Text(Head(elems)) \o (IF Len(elems) > 1 THEN <<",">> ELSE <<>>) \o TextList(Tail(elems))
TextPairs(pairs) ==
  IF pairs = <<>> THEN <<>>
  ELSE Quoted(Head(pairs)[1]) \o <<":">> \o Text(Head(pairs)[2])
         \o (IF Len(pairs) > 1 THEN <<",">> ELSE <<>>) \o TextPairs(Tail(pairs))

\* ---------------------------------------------------------- cell coercion
\* to_dtype: the polars DataType a schema dtype stands for
to_dtype(dtype) ==
  CASE dtype = "string" -> "String"
    [] dtype \in {"number", "float"} -> "Float64"
    [] dtype \in {"integer", "int"} -> "Int64"
    [] dtype \in {"boolean", "bool"} -> "Boolean"
    [] dtype = "date" -> "Date"
    [] dtype = "datetime" -> "Datetime"
    [] OTHER -> "String"

parse_as_f64(v) ==
  CASE v.k = "number" -> as_f64(v)
    [] v.k = "string" -> parse_f64(v.s)
    [] OTHER -> NullCell

\* Variant of parse_as_i64: a string is not parsed.
parse_as_i64Native(v) ==
  CASE v.k = "number" -> as_i64(v)
    [] OTHER -> NullCell

parse_as_i64(v) ==
  CASE v.k = "number" -> as_i64(v)
    [] v.k = "string" -> parse_i64(v.s)
    [] OTHER -> NullCell

parse_as_bool(v) ==
  CASE v.k = "bool" -> BoolCell(v.b)
    [] v.k = "string" ->
         CASE to_lowercase(v.s) \in {<<"t", "r", "u", "e">>, <<"1">>, <<"y", "e", "s">>} -> BoolCell(TRUE)
           [] to_lowercase(v.s) \in {<<"f", "a", "l", "s", "e">>, <<"0">>, <<"n", "o">>} -> BoolCell(FALSE)
           [] OTHER -> NullCell
    [] v.k = "number" ->
         IF as_i64(v) = NullCell THEN NullCell ELSE BoolCell(as_i64(v).digits # <<"0">>)
    [] OTHER -> NullCell

\* Variant of StringRule: a string is rendered like any other value, with its
\* quotes.
StringRuleQuoting(v) ==
  CASE v.k = "null" -> NullCell
    [] OTHER -> StrCell(Text(v))

\* `String(s) => Some(s.clone()), Null => None, other => Some(other.to_string())`
StringRule(v) ==
  CASE v.k = "string" -> StrCell(v.s)
    [] v.k = "null" -> NullCell
    [] OTHER -> StrCell(Text(v))

\* `Null => None, other => Some(other.to_string())`
TextRule(v) ==
  CASE v.k = "null" -> NullCell
    [] OTHER -> StrCell(Text(v))

\* A cell of a row-oriented column: item.get(&col_def.name).and_then(..) with
\* the arm of `match dtype`; opt is what get returned, <<>> for None.
RowCell(dt, opt) ==
  IF opt = <<>> THEN NullCell
  ELSE CASE dt \in {"String", "Date"} -> StringRule(opt[1])
         [] dt = "Float64" -> parse_as_f64(opt[1])
         [] dt = "Int64" -> parse_as_i64(opt[1])
         [] dt = "Boolean" -> parse_as_bool(opt[1])
         [] OTHER -> TextRule(opt[1])

\* A cell of a column-oriented column, from an element of the array or from
\* the single value.
ColCell(dt, v) ==
  CASE dt \in {"String", "Date"} -> StringRule(v)
    [] dt = "Float64" -> parse_as_f64(v)
    [] dt = "Int64" -> parse_as_i64(v)
    [] dt = "Boolean" -> parse_as_bool(v)
    [] OTHER -> StringRule(v)

\* The dtype texts and the JSON values cells are coerced from in this model.
DtypeSamples ==
  {"string", "number", "float", "integer", "int", "boolean", "bool", "date",
   "datetime", "String", "INTEGER", "text", ""}

NumberSamples ==
  {JPos(<<"0">>), JPos(<<"5">>), JPos(<<"7">>), JNeg(<<"3">>), JPos(I64MaxDigits),
   JPos(I64MinDigits), JFloat(FALSE, <<"1">>, <<"5">>), JFloat(FALSE, <<"6">>, <<"0">>),
   JFloat(FALSE, <<"0">>, <<"0">>)}

StringSamples ==
  {JStr(<<"5">>),
    JStr(<<"+", "5">>),
    JStr(<<"-", "3">>),
    JStr(<<"0", "5">>),
    JStr(<<"1", ".", "5">>),
    JStr(<<"a", "b", "c">>),
    JStr(<<>>),
    JStr(<<" ", "5">>),
    JStr(<<"y", "e", "s">>),
    JStr(<<"Y", "E", "S">>),
    JStr(<<"Y", "e", "s">>),
    JStr(<<"n", "o">>),
    JStr(<<"N", "o">>),
    JStr(<<"t", "r", "u", "e">>),
    JStr(<<"T", "R", "U", "E">>),
    JStr(<<"f", "a", "l", "s", "e">>),
    JStr(<<"F", "a", "l", "s", "e">>),
    JStr(<<"0">>),
    JStr(<<"1">>),
    JStr(<<"2">>),
    JStr(<<"m", "a", "y", "b", "e">>),
    JStr(<<"9", "2", "2", "3", "3", "7", "2", "0", "3", "6", "8", "5", "4", "7", "7", "5", "8", "0", "8">>)}

ValueSamples ==
  {JNull, JBool(TRUE), JBool(FALSE)} \cup NumberSamples \cup StringSamples
    \cup {JArr(<<JPos(<<"1">>), JStr(<<"a">>)>>), JArr(<<>>),
          JObj(<<>>), JObj(<<<< <<"k">>, JNull >>>>)}

CoerceInit ==
  /\ Idle
  /\ arg \in [dtype : DtypeSamples, branch : {"row", "col"},
              opt : {<<>>} \cup {<<v>> : v \in ValueSamples}]
  /\ arg.branch = "col" => arg.opt # <<>>
  /\ ret = <<>>

\* The cell built for one value under one schema column.
Coerce ==
  /\ ret = <<>>
  /\ ret' = <<IF arg.branch = "row"
              THEN RowCell(to_dtype(arg.dtype), arg.opt)
              ELSE ColCell(to_dtype(arg.dtype), arg.opt[1])>>
  /\ Pure

CoerceSpec == CoerceInit /\ [][Coerce]_vars

\* ------------------------------------------------------------- the table
\* ColumnDef { name, alias, dtype }; a Schema is a sequence of them.
ColumnDef(name, alias, dtype) == [name |-> name, alias |-> alias, dtype |-> dtype]

\* Value::get with a key: the member of an object, <<>> for None.
Get(v, key) ==
  IF v.k # "object" THEN <<>>
  ELSE LET hits == {i \in DOMAIN v.pairs : v.pairs[i][1] = key}
       IN IF hits = {} THEN <<>> ELSE <<v.pairs[CHOOSE i \in hits : TRUE][2]>>

\* The polars type of the series built for a DataType: a vector of
\* Option<String> is built for Date and Datetime as for String.
SeriesType(dt) == IF dt \in {"Float64", "Int64", "Boolean"} THEN dt ELSE "String"
Series(alias, dt, cells) == [name |-> alias, dtype |-> SeriesType(dt), cells |-> cells]

Ok(columns) == [ok |-> TRUE, columns |-> columns]
\* Err(CoreError::DataFrameError(msg))
Err(msg) == [ok |-> FALSE, err |-> "DataFrameError", msg |-> msg]
\* DataFrame::empty()
DataFrameEmpty == Ok(<<>>)
\* Variant of DataFrameNew: columns of the same name are accepted.
DataFrameNewLenient(columns) ==
  IF \E i, j \in DOMAIN columns : Len(columns[i].cells) # Len(columns[j].cells)
  THEN Err(<<"Failed to create DataFrame: ", {"shape"}>>)
  ELSE Ok(columns)

\* DataFrame::new(columns_vec).map_err(..): an error when two columns have
\* the same name or two columns have different lengths, wrapped with the text
\* of the library's error (given here by the faults it may report).
DataFrameNew(columns) ==
  LET faults ==
        {f \in {"duplicate"} : \E i, j \in DOMAIN columns :
                                  i < j /\ columns[i].name = columns[j].name}
          \cup {f \in {"shape"} : \E i, j \in DOMAIN columns :
                                     Len(columns[i].cells) # Len(columns[j].cells)}
  IN IF faults # {} THEN Err(<<"Failed to create DataFrame: ", faults>>) ELSE Ok(columns)
Width(df) == Len(df.columns)
Height(df) == IF df.columns = <<>> THEN 0 ELSE Len(df.columns[1].cells)

\* Variant of RowColumn: a row without the key contributes no cell.
RowColumnCompact(arr, c) ==
  LET having == SelectSeq(arr, LAMBDA item : Get(item, c.name) # <<>>)
  IN Series(c.alias, to_dtype(c.dtype),
            [i \in DOMAIN having |-> RowCell(to_dtype(c.dtype), Get(having[i], c.name))])

\* The series of one schema column over the rows of the array.
RowColumn(arr, c) ==
  Series(c.alias, to_dtype(c.dtype),
         [i \in DOMAIN arr |-> RowCell(to_dtype(c.dtype), Get(arr[i], c.name))])

\* The series of one schema column of an object, before reconciliation: the
\* coerced elements of an array, the single coerced value, or nothing for an
\* absent key.
ColColumn(obj, c) ==
  LET got == Get(obj, c.name)
      dt == to_dtype(c.dtype)
  IN IF got = <<>> THEN Series(c.alias, dt, <<>>)
     ELSE IF got[1].k = "array"
          THEN Series(c.alias, dt, [i \in DOMAIN got[1].elems |-> ColCell(dt, got[1].elems[i])])
          ELSE Series(c.alias, dt, <<ColCell(dt, got[1])>>)

\* max_rows: the largest length of an array found under a schema column
ArrayLens(schema, obj) ==
  {Len(Get(obj, schema[j].name)[1].elems) :
     j \in {i \in DOMAIN schema : /\ Get(obj, schema[i].name) # <<>>
                                  /\ Get(obj, schema[i].name)[1].k = "array"}}
max_rows(schema, obj) ==
  IF ArrayLens(schema, obj) = {} THEN 0
  ELSE CHOOSE n \in ArrayLens(schema, obj) : \A m \in ArrayLens(schema, obj) : m <= n

\* Variant of Reconcile: a column of one cell is left as it is.
ReconcileFillOnly(col, n) ==
  IF Len(col.cells) = 0 THEN [col EXCEPT !.cells = [i \in 1..n |-> NullCell]] ELSE col

\* One column in the reconciliation loop: an empty column becomes n nulls, a
\* column of one cell is repeated when n > 1, any other is left as it is.
Reconcile(col, n) ==
  IF Len(col.cells) = 0 THEN [col EXCEPT !.cells = [i \in 1..n |-> NullCell]]
  ELSE IF Len(col.cells) = 1 /\ n > 1 THEN [col EXCEPT !.cells = [i \in 1..n |-> col.cells[1]]]
  ELSE col

\* Variant of OtherData: any data that is neither array nor object gives the
\* empty table.
OtherDataEmpty(data) == DataFrameEmpty

\* The last two arms of `match self.data`.
OtherData(data) ==
  IF data.k = "null" THEN DataFrameEmpty
  ELSE Err(<<"Data must be an array or object to convert to DataFrame">>)

to_dataframe(schema, data) ==
  CASE data.k = "array" ->
         IF data.elems = <<>> THEN DataFrameEmpty
         ELSE DataFrameNew([j \in DOMAIN schema |-> RowColumn(data.elems, schema[j])])
    [] data.k = "object" ->
         LET columns_vec == [j \in DOMAIN schema |-> ColColumn(data, schema[j])]
             n == max_rows(schema, data)
         IN DataFrameNew(IF columns_vec # <<>> /\ n > 0
                         THEN [j \in DOMAIN schema |-> Reconcile(columns_vec[j], n)]
                         ELSE columns_vec)
    [] OTHER -> OtherData(data)

\* The schemas and the data tables are built from in this model.
MaxRows == 2
MaxCols == 2
NameX == <<"x">>
NameY == <<"y">>
ColumnDefs ==
  {ColumnDef(name, alias, dtype) :
     name \in {NameX, NameY}, alias \in {<<"X">>, <<"Y">>}, dtype \in {"number", "string"}}
Schemas == UNION {[1..n -> ColumnDefs] : n \in 0..MaxCols}
\* The object with the given members under x and y, <<>> for no member.
Object(ox, oy) ==
  JObj((IF ox = <<>> THEN <<>> ELSE << <<NameX, ox[1]>> >>)
         \o (IF oy = <<>> THEN <<>> ELSE << <<NameY, oy[1]>> >>))
RowMembers == {<<>>, <<JNull>>, <<JStr(<<"5">>)>>}
RowObjects == {Object(ox, oy) : ox \in RowMembers, oy \in RowMembers}
RowData == {JArr(rows) : rows \in UNION {[1..n -> RowObjects] : n \in 0..MaxRows}}
Scalars == {JNull, JPos(<<"7">>)}
ColMembers ==
  {<<>>} \cup {<<v>> : v \in Scalars}
    \cup {<<JArr(elems)>> : elems \in UNION {[1..n -> Scalars] : n \in 0..MaxRows}}
ColData == {Object(ox, oy) : ox \in ColMembers, oy \in ColMembers}

NormalizeInit ==
  /\ Idle
  /\ arg \in [schema : Schemas,
              data : RowData \cup ColData
                       \cup {JNull, JPos(<<"7">>), JStr(<<"5">>), JBool(FALSE)}]
  /\ ret = <<>>

\* ProtoDataFrame { schema, data, .. }.to_dataframe()
Normalize ==
  /\ ret = <<>>
  /\ ret' = <<to_dataframe(arg.schema, arg.data)>>
  /\ Pure

NormalizeSpec == NormalizeInit /\ [][Normalize]_vars

\* One value under one dtype, put to to_dataframe as the member of a row, as
\* the element of a column array and as the single value of a column.
OrientInit ==
  /\ Idle
  /\ arg \in [dtype : DtypeSamples, value : ValueSamples]
  /\ ret = <<>>

Orient ==
  /\ Len(ret) < 3
  /\ ret' = Append(ret,
       to_dataframe(<<ColumnDef(NameX, <<"X">>, arg.dtype)>>,
                    CASE Len(ret) = 0 -> JArr(<<Object(<<arg.value>>, <<>>)>>)
                      [] Len(ret) = 1 -> Object(<<JArr(<<arg.value>>)>>, <<>>)
                      [] OTHER -> Object(<<arg.value>>, <<>>)))
  /\ Pure

OrientSpec == OrientInit /\ [][Orient]_vars

\* -------------------------------------------------------------- the loader
\* A path as load sees it: whether its file-name extension is "wasm", what
\* the path names in the file system, and what path/extension.wasm names
\* (something only when path names a directory).
Exts == {"wasm", "other"}
Paths ==
  {p \in [ext : Exts, names : {"file", "dir", "nothing"}, child : {"file", "nothing"}] :
     p.names # "dir" => p.child = "nothing"}
Configs == {"", "cfg"}

\* The two files load can end up reading hold different bytes.
BytesAt(w) == IF w = "path" THEN "bytes of path" ELSE "bytes of path/extension.wasm"

\* `if path.extension().and_then(|s| s.to_str()) == Some("wasm")`
wasm_path(p) == IF p.ext = "wasm" THEN "path" ELSE "path/extension.wasm"

\* What wasm_path names; Path::exists is true for a file and for a directory.
Target(p) == IF wasm_path(p) = "path" THEN p.names ELSE p.child

\* load: ExtensionNotFound when wasm_path does not exist; std::fs::read(..)?
\* fails with an I/O error on a directory; otherwise the Extension.
load(id, config, p) ==
  CASE Target(p) = "nothing" ->
         [res |-> "ExtensionNotFound", id |-> None, config |-> None, wasm_bytes |-> None]
    [] Target(p) = "dir" ->
         [res |-> "Io", id |-> None, config |-> None, wasm_bytes |-> None]
    [] OTHER ->
         [res |-> "Ok", id |-> id, config |-> config, wasm_bytes |-> BytesAt(wasm_path(p))]

\* The arguments of the call and the file system it runs against.
LoadInit ==
  /\ disk \in [id : Ids, config : Configs, path : Paths]
  /\ loadRes = NoLoad
  /\ arg = None
  /\ ret = <<>>
  /\ store = [s \in Sessions |-> <<>>]
  /\ guest = [s \in Sessions |-> None]
  /\ pc = [s \in Sessions |-> "unborn"]
  /\ queue = [s \in Sessions |-> <<>>]
  /\ nsub = [s \in Sessions |-> 0]
  /\ cur = [s \in Sessions |-> NoCmd]
  /\ emitted = [s \in Sessions |-> <<>>]
  /\ taken = [s \in Sessions |-> 0]
  /\ callerTx = [s \in Sessions |-> 0]
  /\ extensions = [i \in Ids |-> 0]
  /\ regId = [s \in Sessions |-> None]
  /\ merged = <<>>
  /\ mread = 0
  /\ listed = <<>>
  /\ result = [op |-> "none", id |-> None, res |-> None]

\* wasm::load(id, config, path).await
Load ==
  /\ loadRes = NoLoad
  /\ loadRes' = load(disk.id, disk.config, disk.path)
  /\ UNCHANGED <<guest, pc, queue, nsub, cur, emitted, taken, callerTx,
                 extensions, regId, merged, mread, listed, disk, arg, ret, store, result>>

\* `let ext = load(..).await?; ext.into_sipper()`: only an Extension that load
\* returned is turned into a session.
LoadNext ==
  \/ Load
  \/ loadRes.res = "Ok" /\ \E g \in Guests : IntoSipper(Solo, g)
  \/ SessionStep(Solo)
  \/ PullEvent(Solo)
  \/ \E c \in RegCmdInputs : CallerSend(Solo, c)

LoadSpec == LoadInit /\ [][LoadNext]_vars

\* ------------------------------------------------------------ the registry
\* The components registered in this model.
RegGuests == {"kv"}

Registered == {i \in Ids : extensions[i] # 0}

\* The session a successful register starts: the next one not yet created.
FreshSession == CHOOSE s \in Sessions : pc[s] = "unborn" /\ \A t \in Sessions : pc[t] = "unborn" => s <= t

\* Variant of Register: the id is not looked up first, a second registration
\* replaces the stored sender.
RegisterOverwrite(id, g) ==
  /\ \E s \in Sessions : pc[s] = "unborn"
  /\ pc' = [pc EXCEPT ![FreshSession] = "created"]
  /\ guest' = [guest EXCEPT ![FreshSession] = g]
  /\ regId' = [regId EXCEPT ![FreshSession] = id]
  /\ extensions' = [extensions EXCEPT ![id] = FreshSession]
  /\ result' = [op |-> "register", id |-> id, res |-> "Ok"]
  /\ UNCHANGED <<queue, nsub, cur, emitted, taken, callerTx, merged, mread, listed, disk, loadRes, arg, ret, store>>

\* Registry::register: an id already present is refused before anything is
\* created; otherwise the sipper is created, its forwarding task is spawned
\* with a clone of event_tx and the id, and the sender is stored under id.
Register(id, g) ==
  IF extensions[id] # 0
  THEN /\ result' = [op |-> "register", id |-> id, res |-> "AlreadyExists"]
       /\ UNCHANGED <<guest, pc, queue, nsub, cur, emitted, taken, callerTx,
                      extensions, regId, merged, mread, listed, disk, loadRes, arg, ret, store>>
  ELSE /\ \E s \in Sessions : pc[s] = "unborn"
       /\ pc' = [pc EXCEPT ![FreshSession] = "created"]
       /\ guest' = [guest EXCEPT ![FreshSession] = g]
       /\ regId' = [regId EXCEPT ![FreshSession] = id]
       /\ extensions' = [extensions EXCEPT ![id] = FreshSession]
       /\ result' = [op |-> "register", id |-> id, res |-> "Ok"]
       /\ UNCHANGED <<queue, nsub, cur, emitted, taken, callerTx, merged, mread, listed, disk, loadRes, arg, ret, store>>

\* An item of the merged stream: (ext_id, response); src is the session whose
\* forwarding task sent it (history information, not visible to the program).
Tagged(id, event, s) == [id |-> id, event |-> event, src |-> s]

\* Variant of Forward: once the entry of the instance has been removed from
\* the map, its items are taken from the sipper and thrown away.
ForwardUntilUnregistered(s) ==
  /\ regId[s] # None
  /\ taken[s] < Len(emitted[s])
  /\ merged' = IF extensions[regId[s]] = s
               THEN Append(merged, Tagged(regId[s], emitted[s][taken[s] + 1], s))
               ELSE merged
  /\ taken' = [taken EXCEPT ![s] = @ + 1]
  /\ UNCHANGED <<guest, pc, queue, nsub, cur, emitted, callerTx,
                 extensions, regId, mread, listed, disk, loadRes, arg, ret, store, result>>

\* Variant of Forward: the channel hands the newest item out first.
ForwardFront(s) ==
  /\ regId[s] # None
  /\ taken[s] < Len(emitted[s])
  /\ merged' = <<Tagged(regId[s], emitted[s][taken[s] + 1], s)>> \o merged
  /\ taken' = [taken EXCEPT ![s] = @ + 1]
  /\ UNCHANGED <<guest, pc, queue, nsub, cur, emitted, callerTx,
                 extensions, regId, mread, listed, disk, loadRes, arg, ret, store, result>>

\* The spawned task: `while let Some(response) = sipper.next().await` sends
\* (ext_id, response) into the merged channel.
Forward(s) ==
  /\ regId[s] # None
  /\ taken[s] < Len(emitted[s])
  /\ merged' = Append(merged, Tagged(regId[s], emitted[s][taken[s] + 1], s))
  /\ taken' = [taken EXCEPT ![s] = @ + 1]
  /\ UNCHANGED <<guest, pc, queue, nsub, cur, emitted, callerTx,
                 extensions, regId, mread, listed, disk, loadRes, arg, ret, store, result>>

\* Number of commands the sessions have accepted so far, all together.
TotalSent == nsub[1] + nsub[2]

\* Variant of SendMessage: a stored sender whose receiver is gone is reported
\* as a missing extension.
SendMessageConfused(id, c) ==
  IF extensions[id] # 0 /\ ReceiverAlive(extensions[id])
  THEN /\ TotalSent < MaxRegCmds
       /\ unbounded_send(extensions[id], c)
       /\ result' = [op |-> "send", id |-> id, res |-> "Ok"]
       /\ UNCHANGED <<guest, pc, cur, emitted, taken, callerTx,
                      extensions, regId, merged, mread, listed, disk, loadRes, arg, ret, store>>
  ELSE /\ result' = [op |-> "send", id |-> id, res |-> "NotFound"]
       /\ UNCHANGED <<guest, pc, queue, nsub, cur, emitted, taken, callerTx,
                      extensions, regId, merged, mread, listed, disk, loadRes, arg, ret, store>>

\* Variant of SendMessage: the command is handed to every running instance.
SendMessageAll(id, c) ==
  IF extensions[id] # 0
  THEN /\ ReceiverAlive(extensions[id]) => TotalSent < MaxRegCmds
       /\ unbounded_sendShared(extensions[id], c)
       /\ result' = [op |-> "send", id |-> id, res |-> SendResult(extensions[id])]
       /\ UNCHANGED <<guest, pc, cur, emitted, taken, callerTx,
                      extensions, regId, merged, mread, listed, disk, loadRes, arg, ret, store>>
  ELSE /\ result' = [op |-> "send", id |-> id, res |-> "NotFound"]
       /\ UNCHANGED <<guest, pc, queue, nsub, cur, emitted, taken, callerTx,
                      extensions, regId, merged, mread, listed, disk, loadRes, arg, ret, store>>

\* Registry::send_message
SendMessage(id, c) ==
  IF extensions[id] # 0
  THEN /\ ReceiverAlive(extensions[id]) => TotalSent < MaxRegCmds
       /\ unbounded_send(extensions[id], c)
       /\ result' = [op |-> "send", id |-> id, res |-> SendResult(extensions[id])]
       /\ UNCHANGED <<guest, pc, cur, emitted, taken, callerTx,
                      extensions, regId, merged, mread, listed, disk, loadRes, arg, ret, store>>
  ELSE /\ result' = [op |-> "send", id |-> id, res |-> "NotFound"]
       /\ UNCHANGED <<guest, pc, queue, nsub, cur, emitted, taken, callerTx,
                      extensions, regId, merged, mread, listed, disk, loadRes, arg, ret, store>>

\* Variant of Unregister: the entry is reported removed but stays in the map.
UnregisterKeep(id) ==
  /\ result' = [op |-> "unregister", id |-> id,
                res |-> IF extensions[id] # 0 THEN "Ok" ELSE "NotFound"]
  /\ UNCHANGED <<guest, pc, queue, nsub, cur, emitted, taken, callerTx,
                 extensions, regId, merged, mread, listed, disk, loadRes, arg, ret, store>>

\* Registry::unregister: removes the entry, dropping the stored sender
Unregister(id) ==
  /\ extensions' = [extensions EXCEPT ![id] = 0]
  /\ result' = [op |-> "unregister", id |-> id,
                res |-> IF extensions[id] # 0 THEN "Ok" ELSE "NotFound"]
  /\ UNCHANGED <<guest, pc, queue, nsub, cur, emitted, taken, callerTx,
                 regId, merged, mread, listed, disk, loadRes, arg, ret, store>>

\* The orders in which a HashMap may iterate over the keys ks.
RECURSIVE KeyOrders(_)
KeyOrders(ks) ==
  IF ks = {} THEN {<<>>}
  ELSE UNION {{<<k>> \o t : t \in KeyOrders(ks \ {k})} : k \in ks}

\* Variant of ListExtensions: the Vec also holds the ids that were registered
\* once and have been unregistered since.
ListExtensionsStale ==
  /\ \E order \in KeyOrders({regId[s] : s \in Sessions} \ {None}) : listed' = order
  /\ result' = [op |-> "list", id |-> None, res |-> "Ok"]
  /\ UNCHANGED <<guest, pc, queue, nsub, cur, emitted, taken, callerTx,
                 extensions, regId, merged, mread, disk, loadRes, arg, ret, store>>

\* Registry::list_extensions: self.extensions.keys().cloned().collect()
ListExtensions ==
  /\ \E order \in KeyOrders(Registered) : listed' = order
  /\ result' = [op |-> "list", id |-> None, res |-> "Ok"]
  /\ UNCHANGED <<guest, pc, queue, nsub, cur, emitted, taken, callerTx,
                 extensions, regId, merged, mread, disk, loadRes, arg, ret, store>>

\* registry.events().next().await by the application: the oldest item of the
\* merged channel is received; the application keeps nothing of it, so a
\* Sender carried by a Connected event is dropped with the item.
NextEvent ==
  /\ mread < Len(merged)
  /\ mread' = mread + 1
  /\ UNCHANGED <<guest, pc, queue, nsub, cur, emitted, taken, callerTx,
                 extensions, regId, merged, listed, disk, loadRes, arg, ret, store, result>>

RegNext ==
  \/ \E id \in Ids, g \in RegGuests : Register(id, g)
  \/ \E id \in Ids, c \in RegCmdInputs : SendMessage(id, c)
  \/ \E id \in Ids : Unregister(id)
  \/ \E s \in Sessions : SessionStep(s)
  \/ \E s \in Sessions : Forward(s)

RegSpec == Init /\ [][RegNext]_vars

\* The registry with an application that also lists the registered ids.
RegListNext ==
  \/ RegNext
  \/ ListExtensions

RegListSpec == Init /\ [][RegListNext]_vars

\* The registry with an application that also consumes the merged stream.
RegEventsNext ==
  \/ RegNext
  \/ NextEvent

RegEventsSpec == Init /\ [][RegEventsNext]_vars

\* Variant of EventSenders: the registry keeps no sender of its own.
EventSendersTasks ==
  Cardinality({s \in Sessions :
                 regId[s] # None /\ (TaskAlive(s) \/ taken[s] < Len(emitted[s]))})

\* Senders of the merged channel that exist: the event_tx the registry keeps
\* and the clone each forwarding task holds until its sipper has ended.
EventSenders ==
  1 + Cardinality({s \in Sessions :
                     regId[s] # None /\ (TaskAlive(s) \/ taken[s] < Len(emitted[s]))})

\* registry.events().next() polled with nothing left to receive: end of
\* stream when no sender is left, and otherwise the consumer waits.
AwaitEvent ==
  /\ mread = Len(merged)
  /\ result' = [op |-> "next_event", id |-> None,
                res |-> IF EventSenders = 0 THEN "End" ELSE "Pending"]
  /\ UNCHANGED <<guest, pc, queue, nsub, cur, emitted, taken, callerTx,
                 extensions, regId, merged, mread, listed, disk, loadRes, arg, ret, store>>

\* The registry with an application that uses one id, registering it again
\* after an unregister, and consumes and awaits the merged stream.
RegAwaitNext ==
  \/ \E g \in RegGuests : Register("a", g)
  \/ \E c \in RegCmdInputs : SendMessage("a", c)
  \/ Unregister("a")
  \/ \E s \in Sessions : SessionStep(s)
  \/ \E s \in Sessions : Forward(s)
  \/ NextEvent
  \/ AwaitEvent

RegAwaitSpec == Init /\ [][RegAwaitNext]_vars

\* Fairness in the registry: every forwarding task is a spawned task the
\* runtime keeps polling, so each session and each forwarder takes every step
\* that stays possible, and the application keeps reading the merged stream.
RegFairSpec ==
  /\ RegEventsSpec
  /\ \A s \in Sessions : WF_vars(SessionStep(s)) /\ WF_vars(Forward(s))
  /\ WF_vars(NextEvent)

\* The registry with components whose update may never return.
IsoGuests == {"kv", "spin"}

\* The state after register("a", x) and register("b", y) on a new registry,
\* one of x and y a component whose update never returns.
IsoInit ==
  /\ guest \in {g \in [Sessions -> IsoGuests] : {g[s] : s \in Sessions} = IsoGuests}
  /\ pc = [s \in Sessions |-> "created"]
  /\ queue = [s \in Sessions |-> <<>>]
  /\ nsub = [s \in Sessions |-> 0]
  /\ cur = [s \in Sessions |-> NoCmd]
  /\ emitted = [s \in Sessions |-> <<>>]
  /\ taken = [s \in Sessions |-> 0]
  /\ callerTx = [s \in Sessions |-> 0]
  /\ extensions = [i \in Ids |-> IF i = "a" THEN 1 ELSE 2]
  /\ regId = [s \in Sessions |-> IF s = 1 THEN "a" ELSE "b"]
  /\ merged = <<>>
  /\ mread = 0
  /\ listed = <<>>
  /\ disk = NoDisk
  /\ loadRes = NoLoad
  /\ arg = None
  /\ ret = <<>>
  /\ store = [s \in Sessions |-> <<>>]
  /\ result = [op |-> "register", id |-> "b", res |-> "Ok"]

IsoNext ==
  \/ \E id \in Ids, c \in RegCmdInputs : SendMessage(id, c)
  \/ \E id \in Ids : Unregister(id)
  \/ \E s \in Sessions : SessionStep(s)
  \/ \E s \in Sessions : Forward(s)

\* Every session owns its Engine and Store and runs, with its forwarder, in a
\* task of its own that the runtime keeps polling; a session inside a guest
\* call that never returns has no step to take.
IsoSpec ==
  /\ IsoInit /\ [][IsoNext]_vars
  /\ \A s \in Sessions : WF_vars(SessionStep(s)) /\ WF_vars(Forward(s))

\* Fairness of the standalone session: the caller keeps polling the sipper,
\* so the future takes every step that stays possible, and a guest call that
\* is in flight returns.
FairSpec == Spec /\ WF_vars(SessionStep(Solo))

\* ------------------------------------------------------------ observations
\* The events of the merged stream that instance s sent, in stream order.
EventsFrom(s) ==
  LET mine(x) == x.src = s
      sub == SelectSeq(merged, mine)
  IN [i \in 1..Len(sub) |-> sub[i].event]
\* The events of the merged stream tagged id, in stream order.
EventsTagged(id) ==
  LET mine(x) == x.id = id
      sub == SelectSeq(merged, mine)
  IN [i \in 1..Len(sub) |-> sub[i].event]
InstancesOf(id) == {s \in Sessions : regId[s] = id}
\* Session t is inside a guest call that never returns.
Stalled(t) == pc[t] = "call" /\ GuestOutcomes(guest[t]) = {}
\* The response to the k-th command of s is in the merged stream.
Delivered(s, k) == \E j \in DOMAIN merged : merged[j].src = s /\ merged[j].event.n = k
\* The session registered once whose entry has been removed from the map.
Unregistered(s) == regId[s] # None /\ extensions[regId[s]] # s
\* The forwarding task of s has left its `while let Some(..)` loop: the sipper
\* has ended and every event it emitted has been sent on.
ForwarderExited(s) == regId[s] # None /\ ~TaskAlive(s) /\ pc[s] # "unborn" /\ taken[s] = Len(emitted[s])
IsResponse(e) == e.n > 0
Responses(s) == SelectSeq(emitted[s], IsResponse)
Serials(seq) == [i \in 1..Len(seq) |-> seq[i].n]
Answered(s, k) == \E i \in DOMAIN emitted[s] : emitted[s][i].n = k
CountType(s, t) == Cardinality({i \in DOMAIN emitted[s] : emitted[s][i].type = t})
HostMessages == {"Failed to serialize command", "Failed to deserialize response",
                 "guest error", "Runtime error"}
\* The caller has pulled the Connected event and holds no Sender any more.
SenderDropped(s) == taken[s] >= 2 /\ callerTx[s] = 0
\* The event a step appended to the output of s.
Appended(s) == emitted'[s][Len(emitted'[s])]

\* ------------------------------------------------------------------ claims

\* C1: for one running instance the responses are emitted in the order in
\* which their commands were submitted to the queue.
C1_ResponsesInSubmissionOrder ==
  \A s \in Sessions : \A i, j \in DOMAIN emitted[s] :
    (i < j /\ IsResponse(emitted[s][i]) /\ IsResponse(emitted[s][j]))
      => emitted[s][i].n < emitted[s][j].n

C1_Witness ==
  /\ Len(emitted[Solo]) = 4
  /\ emitted[Solo][3].n = 1
  /\ emitted[Solo][4].n = 2

C3_OneGuestCallInFlight ==
  [][\A s \in Sessions :
       /\ Len(queue'[s]) < Len(queue[s])
            => /\ pc[s] = "await"
               /\ cur[s] = NoCmd
               /\ Len(Responses(s)) = nsub[s] - Len(queue[s])
       /\ pc[s] = "call"
            => /\ Len(queue'[s]) >= Len(queue[s])
               /\ SubSeq(queue'[s], 1, Len(queue[s])) = queue[s]
               /\ cur'[s] \in {cur[s], NoCmd}]_vars

C3_Witness ==
  /\ pc[Solo] = "call"
  /\ cur[Solo].n = 1
  /\ Len(queue[Solo]) = 1

\* C4: the commands accepted by a session are, in order, those already
\* answered (one response each), the one being processed and those still
\* queued; every event after the readiness signal answers such a command.
C4_EachCommandAnsweredOnce ==
  \A s \in Sessions :
    /\ Serials(Responses(s))
         \o (IF cur[s] # NoCmd THEN <<cur[s].n>> ELSE <<>>)
         \o Serials(queue[s])
       = [i \in 1..nsub[s] |-> i]
    /\ \A i \in DOMAIN emitted[s] : i > 2 => IsResponse(emitted[s][i])
    /\ pc[s] = "call" <=> cur[s] # NoCmd

C4_Witness ==
  /\ nsub[Solo] = 2
  /\ queue[Solo] = <<>>
  /\ pc[Solo] = "await"
  /\ Len(emitted[Solo]) = 4

\* C5: an Error response the host builds for a failure (serialization,
\* undeserializable reply, guest failure string, runtime fault) carries the
\* correlation_id of the command being processed, and a serialization failure
\* is answered without calling the guest.
C5_ErrorsCarryCorrelationId ==
  [][\A s \in Sessions :
       (Len(emitted'[s]) = Len(emitted[s]) + 1 /\ Appended(s).message \in HostMessages)
         => /\ Appended(s).type = "Error"
            /\ IF pc[s] = "call"
               THEN Appended(s).correlation_id = correlation_id(cur[s])
               ELSE /\ Appended(s).message = "Failed to serialize command"
                    /\ Appended(s).correlation_id = correlation_id(Head(queue[s]))
                    /\ pc[s] = "await" /\ pc'[s] = "await"
                    /\ cur'[s] = NoCmd]_vars

C5_Witness ==
  \E i, j \in DOMAIN emitted[Solo] :
    /\ emitted[Solo][i].message = "Runtime error"
    /\ emitted[Solo][i].correlation_id = "c1"
    /\ emitted[Solo][j].message = "Failed to serialize command"
    /\ emitted[Solo][j].correlation_id = None

\* C6: whatever a guest call comes to, the session is waiting for commands
\* again afterwards, and every command submitted is eventually answered.
C6_SessionSurvivesEveryOutcome ==
  /\ [][\A s \in Sessions : pc[s] = "call" => pc'[s] \in {"call", "await"}]_vars
  /\ \A k \in 1..MaxCmds : (nsub[Solo] >= k) ~> Answered(Solo, k)

C6_Witness ==
  /\ Len(emitted[Solo]) = 4
  /\ emitted[Solo][3].type = "Error"
  /\ emitted[Solo][3].message = "Tool execution failed"
  /\ emitted[Solo][3].correlation_id = "c1"
  /\ emitted[Solo][4].n = 2
  /\ pc[Solo] = "await"

\* C7: once the caller has dropped every Sender it held and the queue is
\* empty, the message loop eventually exits.
C7_LoopExitsWhenSendersDropped ==
  (SenderDropped(Solo) /\ queue[Solo] = <<>>) ~> (pc[Solo] = "done")

\* C8: dropping the callers' Senders aborts and skips nothing: the call in
\* flight completes and every command enqueued before is still answered, and
\* the loop does not exit with work left.
C8_DropSkipsNoWork ==
  /\ [](pc[Solo] = "done" => (queue[Solo] = <<>> /\ Len(Responses(Solo)) = nsub[Solo]))
  /\ \A k \in 1..MaxCmds : (SenderDropped(Solo) /\ nsub[Solo] >= k) ~> Answered(Solo, k)

C8_Witness ==
  /\ SenderDropped(Solo)
  /\ pc[Solo] = "call"
  /\ Len(queue[Solo]) = 1

\* C9: register on an id that is already registered returns AlreadyExists and
\* changes nothing: same stored sender, no new session, no new event.
C9_RegisterExistingChangesNothing ==
  [][\A id \in Ids, g \in RegGuests :
       (extensions[id] # 0 /\ Register(id, g))
         => /\ result'.res = "AlreadyExists"
            /\ UNCHANGED <<guest, pc, queue, nsub, cur, emitted, taken, callerTx,
                           extensions, regId, merged, mread, listed, disk, loadRes, arg, ret, store>>]_vars

C9_Witness ==
  /\ result.op = "register"
  /\ result.res = "AlreadyExists"
  /\ extensions[result.id] # 0

\* C10: send returns NotFound exactly when the id is not registered, and then
\* enqueues nothing; for a registered id whose session is alive it appends the
\* command at the tail of that session's queue and returns Ok; it returns
\* SendError only when the session has ended and its receiver is gone.
C10_SendOutcomes ==
  [][\A id \in Ids, c \in RegCmdInputs :
       SendMessage(id, c)
         => /\ result'.res = "NotFound" <=> extensions[id] = 0
            /\ extensions[id] = 0 => UNCHANGED <<queue, nsub>>
            /\ extensions[id] # 0 =>
                 LET s == extensions[id] IN
                   /\ pc[s] \notin {"panicked", "done"}
                        => /\ result'.res = "Ok"
                           /\ Len(queue'[s]) = Len(queue[s]) + 1
                           /\ SubSeq(queue'[s], 1, Len(queue[s])) = queue[s]
                           /\ queue'[s][Len(queue'[s])].type = c.type
                           /\ queue'[s][Len(queue'[s])].correlation_id = c.correlation_id
                   /\ result'.res = "SendError"
                        <=> pc[s] \in {"panicked", "done"}]_vars

C10_Witness ==
  /\ result.op = "send"
  /\ result.res = "Ok"
  /\ extensions[result.id] # 0
  /\ Len(queue[extensions[result.id]]) = 2

\* C11: unregister of an id that is not registered returns NotFound and
\* leaves the map as it is; otherwise it removes exactly the entry of id and
\* returns Ok while the session goes on unchanged, and a send to an id without
\* entry returns NotFound although the session registered before still runs.
C11_UnregisterOutcomes ==
  [][\A id \in Ids :
       /\ Unregister(id)
            => /\ result'.res = (IF extensions[id] = 0 THEN "NotFound" ELSE "Ok")
               /\ extensions[id] = 0 => extensions' = extensions
               /\ extensions' = [extensions EXCEPT ![id] = 0]
               /\ UNCHANGED <<guest, pc, queue, nsub, cur, emitted, taken, regId, merged, mread, listed, disk, loadRes, arg, ret, store>>
       /\ \A c \in RegCmdInputs : (SendMessage(id, c) /\ extensions[id] = 0)
            => result'.res = "NotFound" /\ UNCHANGED <<queue, nsub>>]_vars

C11_Witness ==
  /\ result.op = "send"
  /\ result.res = "NotFound"
  /\ \E s \in Sessions : regId[s] = result.id /\ pc[s] = "call"

\* C12: once the entry of a running instance has been removed and nobody else
\* holds a sender of its queue, the instance answers what is still queued, its
\* command loop then terminates and its forwarding task exits.
C12_UnregisteredInstanceTerminates ==
  \A s \in Sessions :
    (Unregistered(s) /\ pc[s] \in LoopPcs /\ SendersAlive(s) = 1)
      ~> (pc[s] = "done" /\ ForwarderExited(s))
\* C13: a new registry lists no id; a successful register adds its id to the
\* listed ids, a successful unregister takes its id out, every other call and
\* step leaves them as they are, and list returns exactly these ids, each once.
C13_ListIsRegisteredIds ==
  /\ Registered = {}
  /\ [][/\ Registered' =
             CASE result' # result /\ result'.op = "register" /\ result'.res = "Ok"
                    -> Registered \cup {result'.id}
               [] result' # result /\ result'.op = "unregister" /\ result'.res = "Ok"
                    -> Registered \ {result'.id}
               [] OTHER -> Registered
        /\ result'.op = "list"
             => /\ {listed'[i] : i \in DOMAIN listed'} = Registered'
                /\ Len(listed') = Cardinality(Registered')]_vars

C13_Witness ==
  /\ result.op = "list"
  /\ listed # <<>>
  /\ \E s \in Sessions : Unregistered(s) /\ \A i \in DOMAIN listed : listed[i] # regId[s]
\* C14: every event an instance registered under id has emitted and its
\* forwarding task has taken is in the merged stream exactly once, as the pair
\* (id, event), no event is there ahead of that, every pair of the merged
\* stream was emitted by an instance registered under its id, and the task can
\* always forward an event that is left, whatever state its instance is in.
C14_ForwardingExact ==
  /\ \A s \in Sessions : regId[s] # None =>
        /\ \A i \in DOMAIN emitted[s] :
              Cardinality({j \in DOMAIN merged : merged[j] = Tagged(regId[s], emitted[s][i], s)})
                = IF i <= taken[s] THEN 1 ELSE 0
        /\ taken[s] < Len(emitted[s]) => ENABLED Forward(s)
  /\ \A j \in DOMAIN merged :
        /\ merged[j].id = regId[merged[j].src]
        /\ \E i \in 1..taken[merged[j].src] : emitted[merged[j].src][i] = merged[j].event
  /\ Len(merged) = taken[1] + taken[2]

C14_Witness ==
  \E j, k \in DOMAIN merged :
    /\ merged[j].src # merged[k].src
    /\ merged[j].event.type = "Error"
    /\ Unregistered(merged[j].src)
\* C15 (as stated): for every id, the events of the merged stream tagged id
\* are the emission sequence, as far as forwarded, of an instance registered
\* under id.
C15_PerIdOrder ==
  \A id \in Ids : InstancesOf(id) # {} =>
    \E s \in InstancesOf(id) :
      /\ Len(EventsTagged(id)) <= Len(emitted[s])
      /\ EventsTagged(id) = SubSeq(emitted[s], 1, Len(EventsTagged(id)))

\* C15 (amended): for every instance, the events of the merged stream that
\* come from it are its emission sequence as far as forwarded, in emission
\* order, whatever the interleaving with other instances; the events tagged
\* id are that sequence when one instance only was ever registered under id.
C15_PerInstanceOrder ==
  /\ \A s \in Sessions : regId[s] # None =>
        EventsFrom(s) = SubSeq(emitted[s], 1, taken[s])
  /\ \A id \in Ids : \A s \in InstancesOf(id) :
        InstancesOf(id) = {s} => EventsTagged(id) = SubSeq(emitted[s], 1, taken[s])

C15_Witness ==
  \E i, j, k \in DOMAIN merged :
    /\ i < j /\ j < k
    /\ merged[i].src = merged[k].src
    /\ merged[i].src # merged[j].src
    /\ merged[j].event.n > 0
    /\ merged[k].event.n > 0
\* C16: while one instance is inside a guest call that never returns, the
\* other running instances, those whose own guest calls return, catch up again
\* and again: every command they have accepted is answered and its response
\* is in the merged stream; and register, send, unregister and list can be
\* called and return.
C16_OthersStayLive ==
  /\ (\E t \in Sessions : Stalled(t))
       ~> (\A s \in Sessions :
             (pc[s] \in LoopPcs /\ GuestOutcomes(guest[s]) # {})
               => \A k \in 1..nsub[s] : Delivered(s, k))
  /\ []((\E t \in Sessions : Stalled(t)) =>
          /\ ENABLED ListExtensions
          /\ \A id \in Ids :
                /\ ENABLED Unregister(id)
                /\ \A g \in IsoGuests :
                      (extensions[id] = 0 => \E s \in Sessions : pc[s] = "unborn")
                        => ENABLED Register(id, g)
                /\ \A c \in RegCmdInputs :
                      TotalSent < MaxRegCmds => ENABLED SendMessage(id, c))

C16_Witness ==
  \E t \in Sessions : \E s \in Sessions \ {t} :
    /\ Stalled(t)
    /\ extensions[regId[t]] = t
    /\ Delivered(s, 1)
    /\ guest[s] # "spin"
\* C17: when compiling, linking, instantiating or constructing fails, load has
\* returned an error value and no session exists; the session has emitted
\* neither the readiness signal nor a response.
C17_StartupFailureIsLoadError ==
  pc[Solo] = "panicked" =>
    /\ loadRes.res \in {"ExtensionNotFound", "Io", "ExtensionLoadError"}
    /\ CountType(Solo, "Connected") = 0
    /\ Responses(Solo) = <<>>

\* C18: load reads path itself when path names a file and path/extension.wasm
\* when path names a directory, whatever the file-name extension of path; it
\* returns ExtensionNotFound exactly when that file does not exist and
\* otherwise the component with the given id and config and the file's bytes.
C18_LoadResolvesByKind ==
  loadRes # NoLoad =>
    LET p == disk.path
        resolved == IF p.names = "file" THEN "path" ELSE "path/extension.wasm"
        exists == p.names = "file" \/ (p.names = "dir" /\ p.child = "file")
    IN /\ loadRes.res = "ExtensionNotFound" <=> ~exists
       /\ exists => loadRes = [res |-> "Ok", id |-> disk.id, config |-> disk.config,
                               wasm_bytes |-> BytesAt(resolved)]
\* C19: the guest constructor has run before get_metadata is called and the
\* Metadata response is emitted: whenever a session has emitted Metadata it is
\* Ready or beyond, so a session whose constructor fails has emitted none; and
\* Metadata is emitted once.
C19_ConstructorBeforeMetadata ==
  \A s \in Sessions :
    /\ CountType(s, "Metadata") > 0 => pc[s] \in LoopPcs \cup {"done"}
    /\ CountType(s, "Metadata") <= 1
C21_ResponseEchoesCorrelationId ==
  [][\A s \in Sessions :
       (Len(emitted'[s]) > Len(emitted[s]) /\ Appended(s).n > 0)
         => LET cmd == IF pc[s] = "call" THEN cur[s] ELSE Head(queue[s])
            IN /\ Appended(s).n = cmd.n
               /\ Appended(s).correlation_id = correlation_id(cmd)]_vars

C21_Witness ==
  \E i, j \in DOMAIN emitted[Solo] :
    /\ emitted[Solo][i].type = "ToolList" /\ emitted[Solo][i].correlation_id = None
    /\ emitted[Solo][j].type = "ToolResult" /\ emitted[Solo][j].tool_id = "custom"
    /\ emitted[Solo][j].correlation_id = "c1"
\* C22: the text of a Command, read back, is an equal Command, for each
\* variant and for a correlation id present or absent; an absent id is not in
\* the text.
C22_CommandRoundTrip ==
  /\ Len(ret) >= 1 =>
       (arg.correlation_id = None <=> ~Has(ret[1].payload, "correlation_id"))
  /\ Len(ret) = 2 => ret[2].ok /\ ret[2].cmd = arg

C22_Witness ==
  /\ Len(ret) = 2
  /\ arg.type = "ExecuteTool"
  /\ arg.correlation_id = None
  /\ ret[2].ok
\* The value a cell was coerced from, once Coerce has built it.
Coerced == Len(ret) = 1 /\ arg.opt # <<>>
RecognizedDtypes ==
  {"string", "number", "float", "integer", "int", "boolean", "bool", "date", "datetime"}
\* A JSON number other than zero.
Nonzero(v) == \E i \in DOMAIN (v.digits \o v.frac) : (v.digits \o v.frac)[i] # "0"
\* A text made of an optional sign and one or more digits.
IntegerText(s) == Unsigned(s) # <<>> /\ AllDigits(Unsigned(s))
\* A text made of an optional sign and digits around at most one point.
DecimalText(s) ==
  LET body == Unsigned(s)
      plain == SelectSeq(body, LAMBDA c : c # ".")
  IN plain # <<>> /\ AllDigits(plain) /\ Len(body) - Len(plain) <= 1
\* A magnitude that fits a 64-bit signed integer of the given sign.
InI64(neg, digits) ==
  LeqDigits(StripZeros(digits), IF neg THEN I64MinDigits ELSE I64MaxDigits)

\* C27 (as stated): under dtype boolean a JSON boolean gives itself; the
\* strings true, 1, yes in any letter case give true and false, 0, no give
\* false, every other string gives null; every JSON number, integer or not,
\* gives true exactly when it is not zero; null, arrays and objects give null.
C27_BooleanCoercion ==
  (Coerced /\ arg.dtype \in {"boolean", "bool"}) =>
    LET v == arg.opt[1] IN
    ret[1] =
      CASE v.k = "bool" -> BoolCell(v.b)
        [] v.k = "string" ->
             IF to_lowercase(v.s) \in {<<"t", "r", "u", "e">>, <<"1">>, <<"y", "e", "s">>}
             THEN BoolCell(TRUE)
             ELSE IF to_lowercase(v.s) \in {<<"f", "a", "l", "s", "e">>, <<"0">>, <<"n", "o">>}
                  THEN BoolCell(FALSE)
                  ELSE NullCell
        [] v.k = "number" -> BoolCell(Nonzero(v))
        [] OTHER -> NullCell

\* C28: under dtype integer the cell is a 64-bit signed value exactly when the
\* JSON value is an integer number in range or a string that reads as one,
\* and it is then that value; under dtype number the cell is a double exactly
\* when the value is a number or a string that reads as a decimal; every
\* other value gives the null cell.
C28_NumericCoercionTotal ==
  Coerced =>
    LET v == arg.opt[1] IN
    /\ arg.dtype \in {"integer", "int"} =>
         /\ ret[1].t \in {"i64", "null"}
         /\ ret[1].t = "i64" <=>
              \/ v.k = "number" /\ v.n # "Float" /\ InI64(v.n = "NegInt", v.digits)
              \/ v.k = "string" /\ IntegerText(v.s)
                   /\ InI64(HasSign(v.s) /\ v.s[1] = "-", Unsigned(v.s))
         /\ (ret[1].t = "i64" /\ v.k = "number") =>
              ret[1] = I64(v.n = "NegInt", v.digits)
         /\ (ret[1].t = "i64" /\ v.k = "string") =>
              ret[1].digits = StripZeros(Unsigned(v.s))
         /\ v = JStr(<<"-", "3">>) => ret[1] = I64(TRUE, <<"3">>)
    /\ arg.dtype \in {"number", "float"} =>
         /\ ret[1].t \in {"f64", "null"}
         /\ ret[1].t = "f64" <=>
              \/ v.k = "number"
              \/ v.k = "string" /\ DecimalText(v.s)
         /\ v \in {JPos(<<"7">>), JStr(<<"7">>)} => ret[1] = F64(FALSE, <<"7">>, <<"0">>)
         /\ v \in {JFloat(FALSE, <<"1">>, <<"5">>), JStr(<<"1", ".", "5">>)} =>
              ret[1] = F64(FALSE, <<"1">>, <<"5">>)
C28_Witness ==
  /\ Coerced
  /\ arg.dtype = "integer"
  /\ arg.opt[1] = JStr(<<"5">>)
  /\ ret[1] = I64(FALSE, <<"5">>)

\* C29: under dtype string or date, and under every dtype text outside the
\* recognized set (matched case-sensitively), a JSON string gives itself
\* without quotes, JSON null gives the null cell and any other value gives its
\* JSON text.
C29_StringRule ==
  (Coerced /\ arg.dtype \in {"string", "date"} \cup (DtypeSamples \ RecognizedDtypes)) =>
    LET v == arg.opt[1] IN
    ret[1] = CASE v.k = "string" -> StrCell(v.s)
               [] v.k = "null" -> NullCell
               [] OTHER -> StrCell(Text(v))
C29_Witness ==
  /\ Coerced
  /\ arg.dtype = "INTEGER"
  /\ arg.branch = "row"
  /\ arg.opt[1] = JStr(<<"5">>)
  /\ ret[1] = StrCell(<<"5">>)
\* The table built from data of the given JSON kind, once Normalize has run.
Normalized(kind) == Len(ret) = 1 /\ arg.data.k = kind
\* The schema without its j-th column.
Without(schema, j) == SubSeq(schema, 1, j - 1) \o SubSeq(schema, j + 1, Len(schema))
\* The schema columns whose key is absent from the object, and those holding
\* a value that is not an array.
AbsentColumns == {j \in DOMAIN arg.schema : Get(arg.data, arg.schema[j].name) = <<>>}
\* The alias of the j-th schema column is that of no other column.
FreshAlias(j) ==
  \A k \in DOMAIN arg.schema : k # j => arg.schema[k].alias # arg.schema[j].alias
ScalarColumns ==
  {j \in DOMAIN arg.schema : /\ Get(arg.data, arg.schema[j].name) # <<>>
                            /\ Get(arg.data, arg.schema[j].name)[1].k # "array"}

\* C23 (as stated): for every array of row objects, the empty one included,
\* and every schema, the result is a table with as many columns as the schema
\* has entries and as many rows as the array has elements.
C23_RowShape ==
  Normalized("array") =>
    /\ ret[1].ok
    /\ Width(ret[1]) = Len(arg.schema)
    /\ Height(ret[1]) = Len(arg.data.elems)

\* C24 (as stated): for every object and every schema the result is a table
\* all of whose columns have length max_rows, the largest length of an array
\* under a schema column, which is 0 when there is no array.
C24_ColumnsRectangular ==
  Normalized("object") =>
    /\ ret[1].ok
    /\ \A j \in DOMAIN ret[1].columns :
         Len(ret[1].columns[j].cells) = max_rows(arg.schema, arg.data)

\* C25: when an object has max_rows = n > 1 and the other schema columns
\* alone give a table, a schema column of its own alias holding a value that
\* is not an array gives a table too, and has exactly n cells in it, each the
\* coerced form of that value (null when the value is null or fails
\* coercion).
C25_Broadcast ==
  (Normalized("object") /\ max_rows(arg.schema, arg.data) > 1) =>
    \A j \in {k \in ScalarColumns :
                 FreshAlias(k) /\ to_dataframe(Without(arg.schema, k), arg.data).ok} :
      LET v == Get(arg.data, arg.schema[j].name)[1]
          cells == ret[1].columns[j].cells
      IN /\ ret[1].ok
         /\ Len(cells) = max_rows(arg.schema, arg.data)
         /\ \A i \in DOMAIN cells :
              /\ cells[i] = ColCell(to_dtype(arg.schema[j].dtype), v)
              /\ v = JNull => cells[i] = NullCell
              /\ (v = JPos(<<"7">>) /\ arg.schema[j].dtype = "number")
                   => cells[i] = F64(FALSE, <<"7">>, <<"0">>)
C25_Witness ==
  /\ Normalized("object")
  /\ arg.schema = <<ColumnDef(NameY, <<"Y">>, "number"), ColumnDef(NameX, <<"X">>, "string")>>
  /\ arg.data = Object(<<JArr(<<JPos(<<"7">>), JNull>>)>>, <<JPos(<<"7">>)>>)
  /\ ret[1].ok
  /\ ret[1].columns[1].cells = <<F64(FALSE, <<"7">>, <<"0">>), F64(FALSE, <<"7">>, <<"0">>)>>

\* C26 (as stated): a schema column whose key is absent from the object gives
\* max_rows null cells, and whenever the other columns alone give a table,
\* so do they together with the absent one under an alias of its own.
C26_NullFill ==
  Normalized("object") =>
    \A j \in AbsentColumns :
      (FreshAlias(j) /\ to_dataframe(Without(arg.schema, j), arg.data).ok) =>
        /\ ret[1].ok
        /\ ret[1].columns[j].cells =
             [i \in 1..max_rows(arg.schema, arg.data) |-> NullCell]

\* C30: in the table built from a non-empty array of rows, cell i of the
\* column of a schema column is the coerced member of row i under the
\* column's name, null when row i lacks the key or holds null for it; every
\* column is as long as the array; and a table is built exactly when no two
\* schema columns share an alias, whatever keys the rows lack.
C30_RowCells ==
  (Normalized("array") /\ arg.data.elems # <<>>) =>
    /\ ret[1].ok <=>
         \A j, k \in DOMAIN arg.schema : j # k => arg.schema[j].alias # arg.schema[k].alias
    /\ ret[1].ok =>
         /\ Width(ret[1]) = Len(arg.schema)
         /\ \A j \in DOMAIN arg.schema :
              /\ Len(ret[1].columns[j].cells) = Len(arg.data.elems)
              /\ \A i \in DOMAIN arg.data.elems :
                   LET got == Get(arg.data.elems[i], arg.schema[j].name)
                   IN /\ got \in {<<>>, <<JNull>>} => ret[1].columns[j].cells[i] = NullCell
                      /\ got # <<>> => ret[1].columns[j].cells[i] =
                                         RowCell(to_dtype(arg.schema[j].dtype), got)
C30_Witness ==
  /\ Normalized("array")
  /\ arg.schema = <<ColumnDef(NameX, <<"X">>, "number"), ColumnDef(NameY, <<"Y">>, "string")>>
  /\ arg.data = JArr(<<Object(<<>>, <<JNull>>), Object(<<JStr(<<"5">>)>>, <<>>)>>)
  /\ ret[1].ok
  /\ ret[1].columns[1].cells = <<NullCell, F64(FALSE, <<"5">>, <<"0">>)>>
  /\ ret[1].columns[2].cells = <<NullCell, NullCell>>
\* C31: data null gives the empty table, and data that is a number, a string
\* or a boolean gives the error that data must be an array or an object, and
\* no table, whatever the schema.
C31_NullAndScalarData ==
  /\ Normalized("null") => ret[1] = Ok(<<>>) /\ Width(ret[1]) = 0 /\ Height(ret[1]) = 0
  /\ (Len(ret) = 1 /\ arg.data.k \in {"number", "string", "bool"}) =>
       /\ ~ret[1].ok
       /\ "columns" \notin DOMAIN ret[1]
       /\ ret[1].err = "DataFrameError"
       /\ ret[1].msg = <<"Data must be an array or object to convert to DataFrame">>
C31_Witness ==
  /\ Normalized("bool")
  /\ Len(arg.schema) = 2
  /\ ~ret[1].ok

\* C32: when two schema columns share an alias and the array is not empty, or
\* data is an object, and likewise when the columns built from an object have
\* different lengths, the result is the error of a failed table construction
\* with the detail of the failure, and no table; data that is an array or an
\* object gives no other error.
C32_AssemblyFailure ==
  (Normalized("array") \/ Normalized("object")) =>
    /\ ( /\ \E j \in DOMAIN arg.schema : ~FreshAlias(j)
         /\ arg.data.k = "array" => arg.data.elems # <<>> ) => ~ret[1].ok
    /\ ~ret[1].ok =>
         /\ "columns" \notin DOMAIN ret[1]
         /\ ret[1].err = "DataFrameError"
         /\ ret[1].msg[1] = "Failed to create DataFrame: "
         /\ ret[1].msg[2] # {}
C32_Witness ==
  /\ Normalized("array")
  /\ ~ret[1].ok
  /\ Len(arg.schema) = 2
  /\ arg.schema[1].name # arg.schema[2].name
\* C35 (as stated): for every dtype text and every JSON value, the cell built
\* for the value as a member of a row equals the cell built for it as an
\* element of a column array and, when the value is not itself an array, the
\* cell built for it as the single value of a column.
C35_OrientationIndependent ==
  Len(ret) = 3 =>
    /\ \A b \in 1..3 : ret[b].ok /\ Width(ret[b]) = 1
    /\ Len(ret[1].columns[1].cells) = 1 /\ Len(ret[2].columns[1].cells) = 1
    /\ ret[1].columns[1].cells[1] = ret[2].columns[1].cells[1]
    /\ arg.value.k # "array" => ret[3].columns[1].cells = ret[1].columns[1].cells
\* C33: of two sessions made from clones of one component, each handles only
\* the commands sent to it: the commands buffered for a session, the command
\* it is passing to its guest, the commands its guest instance has been
\* passed and the commands its responses answer are all commands that were
\* sent to that session, and no more of them than were sent.
C33_ClonesIndependent ==
  \A s \in Sessions :
    LET own(c) == c.correlation_id = CloneCmd(s).correlation_id /\ c.n \in 1..nsub[s]
    IN /\ \A i \in DOMAIN queue[s] : own(queue[s][i])
       /\ cur[s] # NoCmd => own(cur[s])
       /\ \A i \in DOMAIN store[s] : own(store[s][i])
       /\ \A i \in DOMAIN emitted[s] : emitted[s][i].n # 0 => own(emitted[s][i])
       /\ Len(store[s]) + Len(queue[s]) <= nsub[s]
C33_Witness ==
  /\ \A s \in Sessions : Len(store[s]) = 1 /\ store[s][1].correlation_id = CloneCmd(s).correlation_id
  /\ Len(queue[Solo]) = 1
\* C34 (as stated): an id is registered only while its instance exists: the
\* session whose sender the registry stores under an id has not terminated.
C34_EntryBoundedByInstance ==
  \A id \in Registered : TaskAlive(extensions[id])

\* C36: a send to id leaves the registered ids as they are, changes no queue
\* but that of the instance registered under id, changes no queue at all when
\* it reports NotFound, and touches no session, no guest state and no stream.
C36_SendFrame ==
  [][\A id \in Ids, c \in RegCmdInputs :
       SendMessage(id, c)
         => /\ extensions' = extensions
            /\ \A s \in Sessions : queue'[s] # queue[s] => s = extensions[id]
            /\ \A s \in Sessions : nsub'[s] # nsub[s] => s = extensions[id]
            /\ result'.res = "NotFound" => queue' = queue /\ nsub' = nsub
            /\ UNCHANGED <<guest, pc, cur, emitted, taken, regId, merged, store>>]_vars
C36_Witness ==
  /\ result = [op |-> "send", id |-> "b", res |-> "Ok"]
  /\ Registered = Ids
  /\ \A s \in Sessions : TaskAlive(s)
  /\ Len(queue[extensions["b"]]) = 1
  /\ nsub[extensions["a"]] = 0

\* C38 (as stated): once id has been registered again after an unregister,
\* every pair (id, e) that enters the merged stream comes from the instance
\* registered under id now, none from the instance registered before.
C38_OneForwarderPerId ==
  [][Len(merged') > Len(merged) =>
       LET m == merged'[Len(merged')]
       IN extensions[m.id] # 0 => m.src = extensions[m.id]]_vars
\* C37: the consumer of the merged stream is never told the stream has
\* ended: having received all there is it waits, also when no id is
\* registered and every instance has terminated.
C37_MergedStreamStaysOpen ==
  result.op = "next_event" => result.res = "Pending" /\ EventSenders >= 1
C37_Witness ==
  /\ result.op = "next_event"
  /\ result.res = "Pending"
  /\ Registered = {}
  /\ mread = Len(merged)
  /\ \A s \in Sessions : pc[s] = "panicked" /\ taken[s] = Len(emitted[s])
\* The last set or delete on key k among the first n messages, 0 for none.
LastWrite(k, n) ==
  LET writes == {j \in 1..n : ret[j].msg.key = k /\ ret[j].msg.method # "get"}
  IN IF writes = {} THEN 0 ELSE CHOOSE j \in writes : \A i \in writes : i <= j
\* Key k holds a value after the first n messages.
Present(k, n) == LastWrite(k, n) # 0 /\ ret[LastWrite(k, n)].msg.method = "set"

\* C39: after any sequence of messages, each get of k was answered with the
\* value of the latest earlier set of k that no later delete of k followed,
\* and with null when there is none; each delete of k with 1 when k was
\* present and with 0 otherwise; each set with Ok; and the map holds exactly
\* the keys present, each with the value of its latest set.
C39_KvSemantics ==
  /\ \A i \in DOMAIN ret :
       LET m == ret[i].msg
           r == ret[i].response
       IN CASE m.method = "get" ->
                 r = [t |-> "Value",
                      v |-> IF Present(m.key, i - 1)
                            THEN ret[LastWrite(m.key, i - 1)].msg.value ELSE None]
            [] m.method = "delete" ->
                 r = [t |-> "Deleted", v |-> IF Present(m.key, i - 1) THEN 1 ELSE 0]
            [] OTHER -> r = [t |-> "Ok"]
  /\ DOMAIN store[Solo] = {k \in {"k1", "k2"} : Present(k, Len(ret))}
  /\ \A k \in DOMAIN store[Solo] : store[Solo][k] = ret[LastWrite(k, Len(ret))].msg.value
C39_Witness ==
  /\ Len(ret) = 3
  /\ ret[1].msg = [method |-> "set", key |-> "k1", value |-> "v1"]
  /\ ret[2].msg = [method |-> "delete", key |-> "k1"]
  /\ ret[2].response = [t |-> "Deleted", v |-> 1]
  /\ ret[3].msg = [method |-> "get", key |-> "k1"]
  /\ ret[3].response = [t |-> "Value", v |-> None]
====
